---- MODULE Spec2Model ----
(***************************************************************************)
(* A model of janim's Signal bus (src/janim/utils/signal.py): the          *)
(* registration table of one Signal object, the five registration methods  *)
(* and emit, together with the refresh cache and the relation graph that   *)
(* emit marks.                                                             *)
(***************************************************************************)
EXTENDS Integers, Sequences, FiniteSets, TLC

\* Bound on the number of registrations held by the Signal.
MaxRegs == 2

(***************************************************************************)
(* The Python program around the Signal: classes, instances, the graph.    *)
(***************************************************************************)

\* key: str = ''  (the default discriminator key is the empty string)
DefaultKey == ""

Keys == {DefaultKey, "k"}

\* callables handed to self_slot / connect
SlotFuncs == {"f", "g"}

\* refresh.register'ed computations handed to the refresh registrations
RefreshFuncs == {"get"}

\* sender.__class__.mro(), most derived class first
mro ==
    [c \in {"Base", "Derived", "Cmpt", "Node", "Relation", "Component", "object"} |->
        CASE c = "Base"      -> <<"Base", "object">>
          [] c = "Derived"   -> <<"Derived", "Base", "object">>
          [] c = "Cmpt"      -> <<"Cmpt", "Base", "Component", "object">>
          [] c = "Node"      -> <<"Node", "Base", "Relation", "object">>
          [] c = "Relation"  -> <<"Relation", "object">>
          [] c = "Component" -> <<"Component", "object">>
          [] OTHER           -> <<"object">>]

Classes == DOMAIN mro

\* cls.__module__
ModuleOf ==
    [c \in Classes |->
        CASE c = "object"    -> "builtins"
          [] c = "Relation"  -> "janim.items.relation"
          [] c = "Component" -> "janim.components.component"
          [] OTHER           -> "__main__"]

\* the instances of the program and their classes
ClassOf ==
    [o \in {"a1", "a2", "b", "cm", "P", "S", "N", "C", "G"} |->
        CASE o \in {"a1", "a2"} -> "Derived"
          [] o = "b"            -> "Base"
          [] o = "cm"           -> "Cmpt"
          [] OTHER              -> "Node"]

Objects == DOMAIN ClassOf

\* id(obj): live objects have pairwise distinct ids
id ==
    [o \in Objects |->
        CASE o = "a1" -> 101 [] o = "a2" -> 102 [] o = "b" -> 103
          [] o = "cm" -> 104 [] o = "P" -> 105 [] o = "S" -> 106
          [] o = "N" -> 107 [] o = "C" -> 108 [] OTHER -> 109]

\* Relation.children: P has the children S and N; G is reachable from N
\* directly and through C.
children ==
    [o \in Objects |->
        CASE o = "P" -> <<"S", "N">>
          [] o = "N" -> <<"C", "G">>
          [] o = "C" -> <<"G">>
          [] OTHER   -> <<>>]

\* Relation.parents, the converse of children
parents ==
    [o \in Objects |->
        CASE o \in {"S", "N"} -> <<"P">>
          [] o = "C"          -> <<"N">>
          [] o = "G"          -> <<"N", "C">>
          [] OTHER            -> <<>>]

InSeq(x, s) == \E i \in DOMAIN s : s[i] = x

\* depth-first pre-order walk along rel, each node once
RECURSIVE walk(_, _, _)
walk(rel, todo, seen) ==
    IF todo = <<>> THEN seen
    ELSE LET n == Head(todo)
         IN  IF InSeq(n, seen)
             THEN walk(rel, Tail(todo), seen)
             ELSE walk(rel, rel[n] \o Tail(todo), Append(seen, n))

walk_descendants(o) == walk(children, children[o], <<>>)

walk_ancestors(o) == walk(parents, parents[o], <<>>)

(***************************************************************************)
(* State.                                                                  *)
(***************************************************************************)
VARIABLES
    slots,   \* Signal.slots: key -> _AllSlots
    dirty,   \* refresh cache: the <<object, computation>> entries that need recomputing
    last     \* what the most recent operation did

\* the timeline side: the items, their animation stacks and the updaters
VARIABLES
    stacks,  \* timeline.item_appearances[item].stack, per item
    live,    \* the live state of each item
    group,   \* the fields of the GroupUpdater
    out      \* what the most recent timeline operation did

\* the registries of the timeline, an arrow being grown, a VItem
VARIABLES
    timeline,  \* the render-calls callbacks and the scheduled tasks of the timeline
    grow,      \* a GrowArrow animation and its arrow
    vitem      \* the points of a VItem and its cached unit normal

\* an updater given post-updaters, the ambient updater parameters, the image
\* and texture caches, the font database
VARIABLES
    upd,       \* a DataUpdater or GroupUpdater, the data it works on and its calls
    ambient,   \* updater_params_ctx and the with-blocks under way
    textures,  \* filepath_to_img_map, img_to_texture_map, the files and the images
    fonts      \* the font database and the most recent lookup

sigvars == <<slots, dirty, last>>

auxvars == <<upd, ambient, textures, fonts>>

extvars == <<timeline, grow, vitem, auxvars>>

updvars == <<stacks, live, group, out, timeline, grow, vitem, auxvars>>

vars == <<slots, dirty, last, stacks, live, group, out, timeline, grow, vitem,
          upd, ambient, textures, fonts>>

\* defaultdict lookups and stores
DictGet(d, k, default) == IF k \in DOMAIN d THEN d[k] ELSE default

DictSet(d, k, v) == [x \in DOMAIN d \cup {k} |-> IF x = k THEN v ELSE d[x]]

EmptyDict == [x \in {} |-> 0]

SelfSlots_init ==
    [self_normal_slots |-> <<>>,
     self_refresh_slots |-> <<>>,
     self_refresh_slots_with_recurse |-> <<>>]

Slots_init == [normal_slots |-> <<>>, refresh_slots |-> <<>>]

AllSlots_init == [self_slots_dict |-> EmptyDict, slots_dict |-> EmptyDict]

SelfSlotWithRecurse(func, recurse_up, recurse_down) ==
    [func |-> func, recurse_up |-> recurse_up, recurse_down |-> recurse_down]

RefreshSlot(obj, func) == [obj |-> obj, func |-> func]

\* f'{module}.{qualname}' taken from the locals of the class body being executed
get_cls_full_qualname_from_fback(cls) == <<ModuleOf[cls], cls>>

\* f'{cls.__module__}.{cls.__qualname__}'
get_cls_full_qualname(cls) == <<ModuleOf[cls], cls>>

(***************************************************************************)
(* Registration: each method appends to one list of the table, creating    *)
(* the defaultdict entries it passes through.                              *)
(***************************************************************************)
\* faulty variant: the list is assigned instead of appended to
RegAssignSelf(s, key, full_qualname, field, x) ==
    LET all_slots  == DictGet(s, key, AllSlots_init)
        self_slots == DictGet(all_slots.self_slots_dict, full_qualname, SelfSlots_init)
        assigned   == [self_slots EXCEPT ![field] = <<x>>]
    IN  DictSet(s, key,
            [all_slots EXCEPT !.self_slots_dict = DictSet(@, full_qualname, assigned)])

RegAppendSelf(s, key, full_qualname, field, x) ==
    LET all_slots  == DictGet(s, key, AllSlots_init)
        self_slots == DictGet(all_slots.self_slots_dict, full_qualname, SelfSlots_init)
        appended   == [self_slots EXCEPT ![field] = Append(@, x)]
    IN  DictSet(s, key,
            [all_slots EXCEPT !.self_slots_dict = DictSet(@, full_qualname, appended)])

RegAppend(s, key, sender_id, field, x) ==
    LET all_slots == DictGet(s, key, AllSlots_init)
        sl        == DictGet(all_slots.slots_dict, sender_id, Slots_init)
        appended  == [sl EXCEPT ![field] = Append(@, x)]
    IN  DictSet(s, key,
            [all_slots EXCEPT !.slots_dict = DictSet(@, sender_id, appended)])

RECURSIVE SumLen(_, _)
SumLen(f, D) ==
    IF D = {} THEN 0
    ELSE LET x == CHOOSE y \in D : TRUE IN Len(f[x]) + SumLen(f, D \ {x})

\* number of registrations held under one key
RegCountAll(all_slots) ==
    LET sd == all_slots.self_slots_dict
        id_ == all_slots.slots_dict
    IN    SumLen([q \in DOMAIN sd |-> sd[q].self_normal_slots], DOMAIN sd)
        + SumLen([q \in DOMAIN sd |-> sd[q].self_refresh_slots], DOMAIN sd)
        + SumLen([q \in DOMAIN sd |-> sd[q].self_refresh_slots_with_recurse], DOMAIN sd)
        + SumLen([i \in DOMAIN id_ |-> id_[i].normal_slots], DOMAIN id_)
        + SumLen([i \in DOMAIN id_ |-> id_[i].refresh_slots], DOMAIN id_)

RECURSIVE RegCountKeys(_, _)
RegCountKeys(s, K) ==
    IF K = {} THEN 0
    ELSE LET k == CHOOSE y \in K : TRUE IN RegCountAll(s[k]) + RegCountKeys(s, K \ {k})

RegCount(s) == RegCountKeys(s, DOMAIN s)

NoEmit(op) ==
    [op |-> op, sender |-> "-", key |-> DefaultKey, events |-> <<>>,
     raised |-> FALSE, executed |-> {}, newly |-> {}]

\* @signal.self_slot(key=key) applied to func in the body of class cls
self_slot(key, cls, func) ==
    /\ RegCount(slots) < MaxRegs
    /\ slots' = RegAppendSelf(slots, key, get_cls_full_qualname_from_fback(cls),
                              "self_normal_slots", func)
    /\ last' = NoEmit("self_slot")
    /\ UNCHANGED dirty

\* @signal.self_refresh(key=key) applied to func in the body of class cls
self_refresh(key, cls, func) ==
    /\ RegCount(slots) < MaxRegs
    /\ slots' = RegAppendSelf(slots, key, get_cls_full_qualname_from_fback(cls),
                              "self_refresh_slots", func)
    /\ last' = NoEmit("self_refresh")
    /\ UNCHANGED dirty

\* @signal.self_refresh_with_recurse(recurse_up=.., recurse_down=.., key=key)
self_refresh_with_recurse(key, cls, func, recurse_up, recurse_down) ==
    /\ RegCount(slots) < MaxRegs
    /\ slots' = RegAppendSelf(slots, key, get_cls_full_qualname_from_fback(cls),
                              "self_refresh_slots_with_recurse",
                              SelfSlotWithRecurse(func, recurse_up, recurse_down))
    /\ last' = NoEmit("self_refresh_with_recurse")
    /\ UNCHANGED dirty

\* signal.connect(sender, func, key=key)
connect(sender, func, key) ==
    /\ RegCount(slots) < MaxRegs
    /\ slots' = RegAppend(slots, key, id[sender], "normal_slots", func)
    /\ last' = NoEmit("connect")
    /\ UNCHANGED dirty

\* signal.connect_refresh(sender, obj, func, key=key)
connect_refresh(sender, obj, func, key) ==
    /\ RegCount(slots) < MaxRegs
    /\ slots' = RegAppend(slots, key, id[sender], "refresh_slots", RefreshSlot(obj, func))
    /\ last' = NoEmit("connect_refresh")
    /\ UNCHANGED dirty

(***************************************************************************)
(* The refresh cache (janim.utils.refresh) and Relation.mark_refresh.      *)
(***************************************************************************)
\* an event of an emit: a slot invoked or a cache entry marked
Event(kind, cls, func, obj) == [kind |-> kind, cls |-> cls, func |-> func, obj |-> obj]

\* obj.mark_refresh(func, recurse_up=.., recurse_down=..): marks the entry of
\* func dirty on obj and, walking the relation graph, on its ancestors and/or
\* descendants; nothing is recomputed.
mark_refresh(st, obj, func, recurse_up, recurse_down, kind, cls) ==
    LET targets == <<obj>>
                   \o (IF recurse_up THEN walk_ancestors(obj) ELSE <<>>)
                   \o (IF recurse_down THEN walk_descendants(obj) ELSE <<>>)
    IN  [st EXCEPT
            !.dirty  = @ \cup {<<targets[i], func>> : i \in DOMAIN targets},
            !.events = @ \o [i \in DOMAIN targets |-> Event(kind, cls, func, targets[i])]]

\* reading a refresh.register'ed computation: executes it only if its entry is dirty
Read(obj, func) ==
    /\ dirty' = dirty \ {<<obj, func>>}
    /\ last' = [NoEmit("read") EXCEPT
                    !.sender = obj,
                    !.executed = IF <<obj, func>> \in dirty THEN {<<obj, func>>} ELSE {}]
    /\ UNCHANGED slots

(***************************************************************************)
(* Signal.emit                                                             *)
(***************************************************************************)
IsInstance(sender, cls) == InSeq(cls, mro[ClassOf[sender]])

\* faulty variant: the pre-check looks at the wrong list of the level
emit_precheck_wrong_list(level_slots, sender) ==
    /\ level_slots.self_refresh_slots # <<>>
    /\ ~IsInstance(sender, "Relation")
    /\ ~IsInstance(sender, "Component")

\* the pre-check of one MRO level: TRUE when emit raises TypeError
emit_precheck(level_slots, sender) ==
    /\ level_slots.self_refresh_slots_with_recurse # <<>>
    /\ ~IsInstance(sender, "Relation")
    /\ ~IsInstance(sender, "Component")

\* for func in slots.self_normal_slots: func(sender, *args, **kwargs)
emit_self_normal(st, funcs, sender, cls) ==
    [st EXCEPT !.events =
        @ \o [i \in DOMAIN funcs |-> Event("self_normal", cls, funcs[i], sender)]]

\* faulty variant: the computation is executed at once instead of being marked
emit_mark_self_recompute(st, sender, func, cls) ==
    [st EXCEPT !.dirty = @ \ {<<sender, func>>},
               !.executed = @ \cup {<<sender, func>>},
               !.events = Append(@, Event("self_refresh", cls, func, sender))]

\* sender.mark_refresh(func)
emit_mark_self(st, sender, func, cls) ==
    mark_refresh(st, sender, func, FALSE, FALSE, "self_refresh", cls)

\* for func in slots.self_refresh_slots: sender.mark_refresh(func)
RECURSIVE emit_self_refresh(_, _, _, _, _)
emit_self_refresh(st, funcs, i, sender, cls) ==
    IF i > Len(funcs) THEN st
    ELSE emit_self_refresh(emit_mark_self(st, sender, funcs[i], cls),
                           funcs, i + 1, sender, cls)

\* faulty variant: recurse_up and recurse_down are passed swapped
emit_mark_recurse_swapped(st, sender, slot, cls) ==
    mark_refresh(st, sender, slot.func, slot.recurse_down, slot.recurse_up,
                 "self_refresh_with_recurse", cls)

\* sender.mark_refresh(slot.func, recurse_up=slot.recurse_up, recurse_down=slot.recurse_down)
emit_mark_recurse(st, sender, slot, cls) ==
    mark_refresh(st, sender, slot.func, slot.recurse_up, slot.recurse_down,
                 "self_refresh_with_recurse", cls)

\* for slot in slots.self_refresh_slots_with_recurse: ...
RECURSIVE emit_self_recurse(_, _, _, _, _)
emit_self_recurse(st, rslots, i, sender, cls) ==
    IF i > Len(rslots) THEN st
    ELSE emit_self_recurse(emit_mark_recurse(st, sender, rslots[i], cls),
                           rslots, i + 1, sender, cls)

\* faulty variant: a level's markings run before its normal slots
emit_level_marks_first(st, level_slots, sender, cls) ==
    IF emit_precheck(level_slots, sender)
    THEN [st EXCEPT !.raised = TRUE]
    ELSE LET s1 == emit_self_refresh(st, level_slots.self_refresh_slots, 1, sender, cls)
             s2 == emit_self_recurse(s1, level_slots.self_refresh_slots_with_recurse, 1,
                                     sender, cls)
         IN  emit_self_normal(s2, level_slots.self_normal_slots, sender, cls)

\* the body of the MRO loop for one class that has an entry in self_slots_dict
emit_level(st, level_slots, sender, cls) ==
    IF emit_precheck(level_slots, sender)
    THEN [st EXCEPT !.raised = TRUE]
    ELSE LET s1 == emit_self_normal(st, level_slots.self_normal_slots, sender, cls)
             s2 == emit_self_refresh(s1, level_slots.self_refresh_slots, 1, sender, cls)
         IN  emit_self_recurse(s2, level_slots.self_refresh_slots_with_recurse, 1,
                               sender, cls)

\* faulty variant: every class is walked, not only those of the sender's MRO
emit_mro_every_class(sender) ==
    <<"Derived", "Cmpt", "Node", "Base", "Relation", "Component", "object">>

\* faulty variant: the MRO is walked from the most base class
emit_mro_base_first(sender) ==
    LET m == mro[ClassOf[sender]]
    IN  [i \in DOMAIN m |-> m[Len(m) + 1 - i]]

\* sender.__class__.mro()
emit_mro(sender) == mro[ClassOf[sender]]

\* faulty variant: the walk stops at the first class that has an entry, so a subclass
\* entry shadows those of its bases
RECURSIVE emit_self_shadowing(_, _, _, _, _)
emit_self_shadowing(st, all_slots, sender, classes, i) ==
    IF st.raised \/ i > Len(classes) THEN st
    ELSE LET full_qualname == get_cls_full_qualname(classes[i])
         IN  IF full_qualname \notin DOMAIN all_slots.self_slots_dict
             THEN emit_self_shadowing(st, all_slots, sender, classes, i + 1)
             ELSE emit_level(st, all_slots.self_slots_dict[full_qualname],
                             sender, classes[i])

\* for cls in sender.__class__.mro(): ...
RECURSIVE emit_self(_, _, _, _, _)
emit_self(st, all_slots, sender, classes, i) ==
    IF st.raised \/ i > Len(classes) THEN st
    ELSE LET full_qualname == get_cls_full_qualname(classes[i])
         IN  IF full_qualname \notin DOMAIN all_slots.self_slots_dict
             THEN emit_self(st, all_slots, sender, classes, i + 1)
             ELSE emit_self(emit_level(st, all_slots.self_slots_dict[full_qualname],
                                       sender, classes[i]),
                            all_slots, sender, classes, i + 1)

\* for func in slots.normal_slots: func(*args, **kwargs)
emit_normal(st, funcs) ==
    [st EXCEPT !.events =
        @ \o [i \in DOMAIN funcs |-> Event("normal", "-", funcs[i], "-")]]

\* for slot in slots.refresh_slots: slot.obj.mark_refresh(slot.func)
RECURSIVE emit_refresh(_, _, _)
emit_refresh(st, rslots, i) ==
    IF i > Len(rslots) THEN st
    ELSE emit_refresh(mark_refresh(st, rslots[i].obj, rslots[i].func, FALSE, FALSE,
                                   "refresh", "-"),
                      rslots, i + 1)

\* faulty variant: the instance-scoped table is looked up by the sender's class
emit_sender_id_by_class(sender) ==
    id[CHOOSE o \in Objects : ClassOf[o] = ClassOf[sender]]

\* sender_id = id(sender)
emit_sender_id(sender) == id[sender]

\* faulty variant: the markings go to the sender instead of the slot's object
emit_instance_marks_sender(st, all_slots, sender) ==
    LET sender_id == emit_sender_id(sender)
    IN  IF sender_id \notin DOMAIN all_slots.slots_dict THEN st
        ELSE LET sl == all_slots.slots_dict[sender_id]
                 own == [i \in DOMAIN sl.refresh_slots |->
                            RefreshSlot(sender, sl.refresh_slots[i].func)]
             IN  emit_refresh(emit_normal(st, sl.normal_slots), own, 1)

\* the instance-scoped part of emit
emit_instance(st, all_slots, sender) ==
    LET sender_id == emit_sender_id(sender)
    IN  IF sender_id \notin DOMAIN all_slots.slots_dict THEN st
        ELSE LET sl == all_slots.slots_dict[sender_id]
             IN  emit_refresh(emit_normal(st, sl.normal_slots), sl.refresh_slots, 1)

\* faulty variant: the key is ignored when the default key has an entry
emit_all_slots_default_key(s, key) ==
    s[IF DefaultKey \in DOMAIN s THEN DefaultKey ELSE key]

\* all_slots = self.slots[key]
emit_all_slots(s, key) == s[key]

\* what one emit does to the cache and which slots it runs, in order
emit_run(s, d, sender, key) ==
    LET st0 == [dirty |-> d, events |-> <<>>, raised |-> FALSE, executed |-> {}]
    IN  IF key \notin DOMAIN s THEN st0
        ELSE LET all_slots == emit_all_slots(s, key)
                 st1 == emit_self(st0, all_slots, sender, emit_mro(sender), 1)
             IN  IF st1.raised THEN st1 ELSE emit_instance(st1, all_slots, sender)

\* faulty variant: the defaultdict is indexed before the membership test
emit_slots_touch(s, sender, key) == DictSet(s, key, DictGet(s, key, AllSlots_init))

\* the registration table after an emit: every lookup of emit is guarded by a
\* membership test, so no defaultdict entry is created
emit_slots(s, sender, key) == s

\* signal.emit(sender, key=key)
emit(sender, key) ==
    LET st == emit_run(slots, dirty, sender, key)
    IN  /\ slots' = emit_slots(slots, sender, key)
        /\ dirty' = st.dirty
        /\ last' = [op |-> "emit", sender |-> sender, key |-> key,
                    events |-> st.events, raised |-> st.raised,
                    executed |-> st.executed, newly |-> st.dirty \ dirty]

(***************************************************************************)
(* Floating-point arithmetic.  A float is held as the integer number of    *)
(* 1/Unit it stands for; every operation rounds its exact result to the    *)
(* nearest float of Precision significant bits, ties to even, as binary64  *)
(* does with 53 bits.                                                      *)
(***************************************************************************)
Precision == 5

Unit == 2 ^ (Precision + 4)

Abs(x) == IF x < 0 THEN 0 - x ELSE x

\* a / b rounded to the nearest integer, ties to even (a >= 0, b > 0)
RoundHalfEven(a, b) ==
    LET q == a \div b
        r == a % b
    IN  IF 2 * r < b THEN q
        ELSE IF 2 * r > b THEN q + 1
        ELSE IF q % 2 = 0 THEN q ELSE q + 1

\* the spacing of the floats around mag / den: the least power of two u, from
\* the one given on, with mag / den < 2^Precision * u
RECURSIVE UlpOf(_, _, _)
UlpOf(mag, den, u) ==
    IF mag < (2 ^ Precision) * u * den THEN u ELSE UlpOf(mag, den, 2 * u)

\* the float nearest to the exact value num / den (den > 0)
fl(num, den) ==
    IF num = 0 THEN 0
    ELSE LET mag == Abs(num)
             ulp == UlpOf(mag, den, 1)
             m   == RoundHalfEven(mag, den * ulp)
         IN  IF num < 0 THEN 0 - m * ulp ELSE m * ulp

FromInt(n) == fl(n * Unit, 1)

FAdd(a, b) == fl(a + b, 1)

FSub(a, b) == fl(a - b, 1)

FMul(a, b) == fl(a * b, Unit)

FDiv(a, b) == fl(a * Unit, b)

\* janim.utils.simple_functions.clip
clip(a, min_a, max_a) ==
    IF a < min_a THEN min_a
    ELSE IF a > max_a THEN max_a
    ELSE a

(***************************************************************************)
(* Updaters (janim.anims.updater).                                         *)
(***************************************************************************)
\* _DataUpdater.__init__
SubDataUpdater(item, func, lag_ratio, index, count, t_range) ==
    [item |-> item, func |-> func, lag_ratio |-> lag_ratio,
     index |-> index, count |-> count, t_range |-> t_range]

\* faulty variant: the full length counts every item
get_sub_alpha_full_count(self, alpha) ==
    LET lag_ratio   == self.lag_ratio
        full_length == FAdd(FMul(FromInt(self.count), lag_ratio), FromInt(1))
        value       == FMul(alpha, full_length)
        lower       == FMul(FromInt(self.index), lag_ratio)
    IN  clip(FSub(value, lower), FromInt(0), FromInt(1))

\* faulty variant: the lower bound is the index itself
get_sub_alpha_lower_index(self, alpha) ==
    LET lag_ratio   == self.lag_ratio
        full_length == FAdd(FMul(FromInt(self.count - 1), lag_ratio), FromInt(1))
        value       == FMul(alpha, full_length)
        lower       == FromInt(self.index)
    IN  clip(FSub(value, lower), FromInt(0), FromInt(1))

\* _DataUpdater.get_sub_alpha
get_sub_alpha(self, alpha) ==
    LET lag_ratio   == self.lag_ratio
        full_length == FAdd(FMul(FromInt(self.count - 1), lag_ratio), FromInt(1))
        value       == FMul(alpha, full_length)
        lower       == FMul(FromInt(self.index), lag_ratio)
    IN  clip(FSub(value, lower), FromInt(0), FromInt(1))

\* one call of get_sub_alpha on the sub-updater at hand
sub_alpha_call(alpha) ==
    /\ out.op \in {"sub_updater", "get_sub_alpha"}
    /\ out' = [op |-> "get_sub_alpha", self |-> out.self, alpha |-> alpha,
               value |-> get_sub_alpha(out.self, alpha)]
    /\ UNCHANGED <<stacks, live, group>>

(***************************************************************************)
(* Items and their animation stacks (janim.items.item,                     *)
(* janim.anims.anim_stack, janim.anims.animation).  The state of an item   *)
(* is whether it is null and the history of the user functions applied to  *)
(* it, each with the alpha it was given.                                   *)
(***************************************************************************)
Items == {"N", "C", "G"}

ItemData(null) == [null |-> null, hist |-> <<>>]

\* Item.walk_self_and_descendants(root_only)
walk_self_and_descendants(item, root_only) ==
    IF root_only THEN <<item>> ELSE <<item>> \o walk_descendants(item)

\* a user function of a DataUpdater called as func(data, params): it changes data
call_func(func, data, alpha) == [data EXCEPT !.hist = Append(@, <<func, alpha>>)]

\* the stack of an item that appears at time 0 with the state data
AnimStack(data) == [anims |-> <<>>, became |-> <<[t |-> 0, data |-> data]>>]

\* ItemAnimation.finalize: the animation is registered in the stack of its item
finalize(stack, anim) == [stack EXCEPT !.anims = Append(@, anim)]

\* ItemAnimation.get_alpha_on_global_t, with the linear rate function
get_alpha_on_global_t(self, global_t) ==
    IF global_t <= self.t_range[1] THEN FromInt(0)
    ELSE IF global_t >= self.t_range[2] THEN FromInt(1)
    ELSE FDiv(FromInt(global_t - self.t_range[1]), FromInt(self.t_range[2] - self.t_range[1]))

\* whether the range of anim contains t; at a boundary get_at_left decides
anim_contains(anim, t, get_at_left) ==
    IF get_at_left THEN anim.t_range[1] < t /\ t <= anim.t_range[2]
    ELSE anim.t_range[1] <= t /\ t < anim.t_range[2]

\* the persisted state a computation at t starts from: the one committed last
\* among those committed before t (at or before t for the right limit)
stack_base(stack, t, get_at_left) ==
    LET ok(i) == IF get_at_left /\ t > 0 THEN stack.became[i].t < t
                 ELSE stack.became[i].t <= t
        I == {i \in DOMAIN stack.became : ok(i)}
        i == CHOOSE j \in I : \A k \in I :
                 \/ stack.became[k].t < stack.became[j].t
                 \/ (stack.became[k].t = stack.became[j].t /\ k <= j)
    IN  stack.became[i].data

\* faulty variant: the function is given the untouched item, not the state passed in
DataUpdater_apply_to_base(self, data, global_t) ==
    call_func(self.func, [data EXCEPT !.hist = <<>>],
              get_sub_alpha(self, get_alpha_on_global_t(self, global_t)))

\* _DataUpdater.apply
DataUpdater_apply(self, data, global_t) ==
    call_func(self.func, data,
              get_sub_alpha(self, get_alpha_on_global_t(self, global_t)))

\* an ApplyAligner: its pre_apply and apply are called by the aligned pass of
\* a sample, for all the items it aligns
IsAligner(anim) == "orig_updater" \in DOMAIN anim

\* the animations whose range contains t are applied in registration order,
\* each to the state the previous one produced
RECURSIVE stack_apply(_, _, _, _, _)
stack_apply(anims, i, data, t, get_at_left) ==
    IF i > Len(anims) THEN data
    ELSE IF anim_contains(anims[i], t, get_at_left) /\ ~IsAligner(anims[i])
         THEN stack_apply(anims, i + 1, DataUpdater_apply(anims[i], data, t), t, get_at_left)
         ELSE stack_apply(anims, i + 1, data, t, get_at_left)

\* AnimStack.compute(t, readonly, get_at_left=..)
compute(stack, t, get_at_left) ==
    stack_apply(stack.anims, 1, stack_base(stack, t, get_at_left), t, get_at_left)

\* AnimStack.detect_change(item, t, force=True): the live state of the item
\* becomes the persisted state from t on
detect_change(stack, data, t) ==
    [stack EXCEPT !.became = Append(@, [t |-> t, data |-> data])]

(***************************************************************************)
(* DataUpdater                                                             *)
(***************************************************************************)
\* DataUpdater.__init__
DataUpdater(item, func, t_range, lag_ratio, become_at_end, skip_null_items, root_only) ==
    [item |-> item, func |-> func, t_range |-> t_range, lag_ratio |-> lag_ratio,
     become_at_end |-> become_at_end, skip_null_items |-> skip_null_items,
     root_only |-> root_only]

\* faulty variant: null items are not skipped
DataUpdater_items_unfiltered(self, lv) ==
    walk_self_and_descendants(self.item, self.root_only)

\* the items of _time_fixed
DataUpdater_items(self, lv) ==
    SelectSeq(walk_self_and_descendants(self.item, self.root_only),
              LAMBDA item : ~self.skip_null_items \/ ~lv[item].null)

\* faulty variant: the end state is computed before the sub-updater is registered
RECURSIVE DataUpdater_loop_compute_first(_, _, _, _)
DataUpdater_loop_compute_first(self, items, i, st) ==
    IF i > Len(items) THEN st
    ELSE LET item  == items[i]
             sub_updater == SubDataUpdater(item, self.func, self.lag_ratio, i - 1,
                                           Len(items), self.t_range)
             end   == self.t_range[2]
             data  == compute(st.stacks[item], end, TRUE)
             stack == finalize(st.stacks[item], sub_updater)
             st1   == [st EXCEPT !.stacks[item] = stack, !.subs = Append(@, sub_updater)]
             st2   == IF self.become_at_end
                      THEN [st1 EXCEPT !.live[item] = data,
                                       !.stacks[item] = detect_change(stack, data, end)]
                      ELSE st1
         IN  DataUpdater_loop_compute_first(self, items, i + 1, st2)

\* the loop of _time_fixed from its i-th item on
RECURSIVE DataUpdater_loop(_, _, _, _)
DataUpdater_loop(self, items, i, st) ==
    IF i > Len(items) THEN st
    ELSE LET item  == items[i]
             sub_updater == SubDataUpdater(item, self.func, self.lag_ratio, i - 1,
                                           Len(items), self.t_range)
             stack == finalize(st.stacks[item], sub_updater)
             end   == self.t_range[2]
             data  == compute(stack, end, TRUE)
             st1   == [st EXCEPT !.stacks[item] = stack, !.subs = Append(@, sub_updater)]
             st2   == IF self.become_at_end
                      THEN [st1 EXCEPT !.live[item] = data,
                                       !.stacks[item] = detect_change(stack, data, end)]
                      ELSE st1
         IN  DataUpdater_loop(self, items, i + 1, st2)

\* DataUpdater._time_fixed
DataUpdater_time_fixed(self) ==
    LET st == DataUpdater_loop(self, DataUpdater_items(self, live), 1,
                               [stacks |-> stacks, live |-> live, subs |-> <<>>])
    IN  /\ stacks' = st.stacks
        /\ live' = st.live
        /\ out' = [op |-> "DataUpdater", made |-> out.made + 1, self |-> self,
                   subs |-> st.subs]
        /\ UNCHANGED group

\* the state of item at time t is asked for
compute_at(item, t, get_at_left) ==
    /\ out' = [op |-> "compute", made |-> out.made, item |-> item, t |-> t,
               get_at_left |-> get_at_left,
               data |-> compute(stacks[item], t, get_at_left)]
    /\ UNCHANGED <<stacks, live, group>>

(***************************************************************************)
(* GroupUpdater                                                            *)
(***************************************************************************)
\* GroupUpdater.__init__; calls counts the invocations of func in the sample
\* under way
GroupUpdater(item, func, t_range, become_at_end) ==
    [item |-> item, func |-> func, t_range |-> t_range,
     become_at_end |-> become_at_end, applied |-> FALSE,
     data |-> EmptyDict, calls |-> 0]

\* _GroupUpdater.__init__
SubGroupUpdater(orig_updater, item) ==
    [orig_updater |-> "group", item |-> item, t_range |-> orig_updater.t_range]

\* a user function of a GroupUpdater called as func(data, params) on a whole
\* group: it changes every node, reading all the nodes of the group
call_group_func(func, data, alpha) ==
    LET seen_ == SumLen([x \in DOMAIN data |-> data[x].hist], DOMAIN data)
    IN  [x \in DOMAIN data |->
            [data[x] EXCEPT !.hist = Append(@, <<func, alpha, seen_>>)]]

SeqToSet(seq) == {seq[i] : i \in DOMAIN seq}

\* faulty variant: the function is run on the items as they are, without
\* restoring them to their states at the end of the range
GroupUpdater_become_unrestored(self, lv, st) ==
    call_group_func(self.func,
                    [x \in SeqToSet(walk_self_and_descendants(self.item, FALSE)) |-> lv[x]],
                    FromInt(1))

\* the become_at_end block of _time_fixed up to the call of func: the items
\* are restored to their states at the end of the range and func is run on them
GroupUpdater_become(self, lv, st) ==
    call_group_func(self.func,
                    [x \in SeqToSet(walk_self_and_descendants(self.item, FALSE)) |->
                        compute(st[x], self.t_range[2], TRUE)],
                    FromInt(1))

\* GroupUpdater._time_fixed
GroupUpdater_time_fixed ==
    LET self    == group
        walked  == walk_self_and_descendants(self.item, FALSE)
        W       == SeqToSet(walked)
        end     == self.t_range[2]
        data    == [x \in W |-> live[x]]
        live2   == GroupUpdater_become(self, live, stacks)
        stacks1 == [x \in Items |->
                       IF self.become_at_end /\ x \in W
                       THEN detect_change(stacks[x], live2[x], end)
                       ELSE stacks[x]]
    IN  /\ out.op = "timeline"
        /\ group' = [group EXCEPT !.data = data]
        /\ live' = [x \in Items |->
                       IF self.become_at_end /\ x \in W THEN live2[x] ELSE live[x]]
        /\ stacks' = [x \in Items |->
                         IF x \in W
                         THEN finalize(stacks1[x], SubGroupUpdater(self, x))
                         ELSE stacks1[x]]
        /\ out' = [out EXCEPT !.op = "GroupUpdater"]

\* faulty variant: the working copy is not restored from the item's input state
GroupUpdater_pre_apply_no_restore(g, x, data) ==
    [g EXCEPT !.applied = FALSE]

\* _GroupUpdater.pre_apply of the sub-updater of item x
GroupUpdater_pre_apply(g, x, data) ==
    [g EXCEPT !.applied = FALSE, !.data[x] = data]

\* faulty variant: the applied flag is not set
apply_for_group_unflagged(g, global_t) ==
    IF g.applied THEN g
    ELSE [g EXCEPT !.data = call_group_func(g.func, @, get_alpha_on_global_t(g, global_t)),
                   !.calls = @ + 1]

\* GroupUpdater.apply_for_group
apply_for_group(g, global_t) ==
    IF g.applied THEN g
    ELSE [g EXCEPT !.data = call_group_func(g.func, @, get_alpha_on_global_t(g, global_t)),
                   !.calls = @ + 1,
                   !.applied = TRUE]

\* faulty variant: the item is handed the state its node had before the function ran
GroupUpdater_apply_before_func(g, x, global_t) ==
    LET g1 == apply_for_group(g, global_t)
    IN  [g |-> g1, data |-> g.data[x]]

\* _GroupUpdater.apply of the sub-updater of item x: the group after the call
\* and the state handed back for x
GroupUpdater_apply(g, x, global_t) ==
    LET g1 == apply_for_group(g, global_t)
    IN  [g |-> g1, data |-> g1.data[x]]

\* the sub-updater of the group registered for item x is selected at t
aligned_at(x, t, get_at_left) ==
    \E i \in DOMAIN stacks[x].anims :
        IsAligner(stacks[x].anims[i]) /\ anim_contains(stacks[x].anims[i], t, get_at_left)

\* the pre_apply pass of a sample over the items in the given order
RECURSIVE sample_pre_apply(_, _, _, _, _)
sample_pre_apply(g, order, i, t, get_at_left) ==
    IF i > Len(order) THEN g
    ELSE LET x == order[i]
         IN  sample_pre_apply(
                 IF aligned_at(x, t, get_at_left)
                 THEN GroupUpdater_pre_apply(g, x, compute(stacks[x], t, get_at_left))
                 ELSE g,
                 order, i + 1, t, get_at_left)

\* the apply pass of a sample over the first n items of the order: st holds
\* the group and the items' results
RECURSIVE sample_apply(_, _, _, _, _, _)
sample_apply(st, order, i, n, t, get_at_left) ==
    IF i > n THEN st
    ELSE LET x == order[i]
             r == GroupUpdater_apply(st.g, x, t)
         IN  sample_apply(
                 IF aligned_at(x, t, get_at_left)
                 THEN [g |-> r.g, result |-> DictSet(st.result, x, r.data)]
                 ELSE [st EXCEPT !.result =
                          DictSet(@, x, compute(stacks[x], t, get_at_left))],
                 order, i + 1, n, t, get_at_left)

\* one time sample: n items of the group are evaluated at t, from the left
\* when get_at_left; the aligner has pre_apply called for every stack it
\* aligns, then apply for the items evaluated, both in the given order
sample(t, order, n, get_at_left) ==
    /\ out.op \in {"GroupUpdater", "sample"}
    /\ \E g1 \in {sample_pre_apply([group EXCEPT !.calls = 0], order, 1, t, get_at_left)} :
       \E st \in {sample_apply([g |-> g1, result |-> EmptyDict], order, 1, n, t,
                               get_at_left)} :
          /\ group' = st.g
          /\ out' = [op |-> "sample", made |-> out.made, t |-> t, order |-> order,
                     get_at_left |-> get_at_left,
                     result |-> st.result, applied_before |-> group.applied,
                     first |-> IF out.op = "sample" THEN out.first
                               ELSE [t |-> t, get_at_left |-> get_at_left,
                                     result |-> st.result],
                     between |-> out.op = "sample" /\
                                 (out.between \/ t # out.first.t
                                  \/ get_at_left # out.first.get_at_left)]
    /\ UNCHANGED <<stacks, live>>

(***************************************************************************)
(* ItemUpdater                                                             *)
(***************************************************************************)
\* item=None
None == "None"

\* UpdaterParams(global_t, alpha, range, extra_data, updater)
UpdaterParams(global_t, alpha, range, extra_data, updater) ==
    [global_t |-> global_t, alpha |-> alpha, range |-> range,
     extra_data |-> extra_data, updater |-> updater]

\* ItemUpdater.__init__; k names the animation
ItemUpdater(k, item, func, t_range, hide_at_begin, show_at_end, become_at_end) ==
    [k |-> k, item |-> item, func |-> func, t_range |-> t_range,
     hide_at_begin |-> hide_at_begin, show_at_end |-> show_at_end,
     become_at_end |-> become_at_end]

\* a user function of an ItemUpdater called as func(params): it returns a new
\* item made from the parameters or, at the times in func.bad, a value that is
\* not an item
call_item_func(func, p) ==
    IF p.global_t \in func.bad THEN [value |-> None]
    ELSE [null |-> FALSE, hist |-> <<<<func.name, p.alpha, p.global_t>>>>]

\* isinstance(ret, Item)
IsItem(ret) == "hist" \in DOMAIN ret

\* faulty variant: the check of the returned value is left out
ItemUpdater_call_unchecked(self, p) ==
    [raised |-> FALSE, ret |-> call_item_func(self.func, p), p |-> p]

\* ItemUpdater.call: raised tells whether UpdaterError is raised
ItemUpdater_call(self, p) ==
    LET ret == call_item_func(self.func, p)
    IN  [raised |-> ~IsItem(ret), ret |-> ret, p |-> p]

\* timeline.add_additional_render_calls_callback(t_range, callback)
add_additional_render_calls_callback(tl, t_range, anim) ==
    [tl EXCEPT !.callbacks = Append(@, [t_range |-> t_range, anim |-> anim])]

\* timeline.schedule(t, item.hide) and timeline.schedule(t, item.show)
schedule(tl, t, item, task) ==
    [tl EXCEPT !.schedule = Append(@, [t |-> t, item |-> item, task |-> task])]

\* item.become(ret): the item takes the data of ret
become(lv, item, ret) == [lv EXCEPT ![item] = ret]

\* the detect_change loop of _time_fixed over the items in walked from the i-th on
RECURSIVE ItemUpdater_commit(_, _, _, _, _)
ItemUpdater_commit(st, lv, walked, i, end) ==
    IF i > Len(walked) THEN st
    ELSE ItemUpdater_commit(
             [st EXCEPT ![walked[i]] = detect_change(@, lv[walked[i]], end)],
             lv, walked, i + 1, end)

\* faulty variant: show is scheduled whenever hide is
ItemUpdater_schedules_by_hide(self, tl) ==
    LET tl1 == IF self.hide_at_begin
               THEN schedule(tl, self.t_range[1], self.item, "hide") ELSE tl
    IN  IF self.hide_at_begin
        THEN schedule(tl1, self.t_range[2], self.item, "show") ELSE tl1

\* the automatic hide at the begin and show at the end
ItemUpdater_schedules(self, tl) ==
    LET tl1 == IF self.hide_at_begin
               THEN schedule(tl, self.t_range[1], self.item, "hide") ELSE tl
    IN  IF self.show_at_end
        THEN schedule(tl1, self.t_range[2], self.item, "show") ELSE tl1

\* faulty variant: only the stack of the item itself is committed
ItemUpdater_become_at_end_root_only(self, st) ==
    LET end == self.t_range[2]
        r   == ItemUpdater_call(self, UpdaterParams(end, FromInt(1), self.t_range, None, self.k))
        lv  == become(st.live, self.item, r.ret)
    IN  IF r.raised
        THEN [st EXCEPT !.raised = TRUE, !.calls = Append(@, r.p)]
        ELSE [st EXCEPT !.calls = Append(@, r.p), !.live = lv,
                        !.stacks = ItemUpdater_commit(@, lv, <<self.item>>, 1, end)]

\* the replacement of the item by the last frame; st holds the timeline, the
\* live states and the stacks, whether UpdaterError is raised and the
\* parameters func was called with
ItemUpdater_become_at_end(self, st) ==
    LET end == self.t_range[2]
        r   == ItemUpdater_call(self, UpdaterParams(end, FromInt(1), self.t_range, None, self.k))
        lv  == become(st.live, self.item, r.ret)
    IN  IF r.raised
        THEN [st EXCEPT !.raised = TRUE, !.calls = Append(@, r.p)]
        ELSE [st EXCEPT !.calls = Append(@, r.p), !.live = lv,
                        !.stacks = ItemUpdater_commit(@, lv,
                                       walk_self_and_descendants(self.item, FALSE), 1, end)]

\* ItemUpdater._time_fixed
ItemUpdater_time_fixed(self) ==
    LET st0 == [timeline |-> add_additional_render_calls_callback(timeline, self.t_range, self),
                live |-> live, stacks |-> stacks, raised |-> FALSE, calls |-> <<>>]
        st1 == [st0 EXCEPT !.timeline = ItemUpdater_schedules(self, @)]
        st  == IF self.item = None THEN st0
               ELSE IF self.become_at_end THEN ItemUpdater_become_at_end(self, st1)
               ELSE st1
    IN  /\ timeline' = st.timeline
        /\ live' = st.live
        /\ stacks' = st.stacks
        /\ out' = [op |-> "ItemUpdater", made |-> out.made + 1, self |-> self,
                   raised |-> st.raised, calls |-> st.calls,
                   errored |-> IF st.raised THEN out.errored \cup {self.k} ELSE out.errored]
        /\ UNCHANGED <<group, grow, vitem>>

\* ItemUpdater.get_renderer: the renderers made so far, by item class
get_renderer(renderers, cls) == renderers \cup {cls}

\* ItemUpdater.render_calls_callback at the global time global_t
render_calls_callback(self, global_t) ==
    LET alpha == get_alpha_on_global_t(self, global_t)
        r     == ItemUpdater_call(self, UpdaterParams(global_t, alpha, self.t_range, None, self.k))
    IN  [raised |-> r.raised, p |-> r.p,
         render_calls |-> IF r.raised THEN <<>> ELSE <<<<r.ret, "render">>>>]

\* the additional render calls of a sample at t: the callbacks whose range
\* contains t are called in registration order, from the i-th on; a callback
\* that raises contributes nothing to the frame
RECURSIVE render_callbacks(_, _, _, _)
render_callbacks(tl, i, t, acc) ==
    IF i > Len(tl.callbacks) THEN [timeline |-> tl, acc |-> acc]
    ELSE LET cb == tl.callbacks[i]
             r  == render_calls_callback(cb.anim, t)
             k  == cb.anim.k
         IN  IF ~anim_contains(cb, t, FALSE) THEN render_callbacks(tl, i + 1, t, acc)
             ELSE render_callbacks(
                      IF r.raised THEN tl
                      ELSE [tl EXCEPT !.renderers =
                               DictSet(@, k, get_renderer(DictGet(@, k, {}), "Item"))],
                      i + 1, t,
                      [invoked |-> Append(acc.invoked, k),
                       raised |-> IF r.raised THEN acc.raised \cup {k} ELSE acc.raised,
                       render_calls |-> acc.render_calls \o
                                        [j \in DOMAIN r.render_calls |-> <<k, r.render_calls[j]>>]])

\* one time sample of the additional render calls
render_sample(t) ==
    LET r == render_callbacks(timeline, 1, t,
                              [invoked |-> <<>>, raised |-> {}, render_calls |-> <<>>])
    IN  /\ out.op \in {"ItemUpdater", "render"}
        /\ timeline' = r.timeline
        /\ out' = [op |-> "render", made |-> out.made, t |-> t,
                   invoked |-> r.acc.invoked, raised |-> r.acc.raised,
                   render_calls |-> r.acc.render_calls,
                   errored_before |-> out.errored,
                   errored |-> out.errored \cup r.acc.raised]
        /\ UNCHANGED <<stacks, live, group, grow, vitem>>

\* the timeline before any ItemUpdater is made
NoCallbacks == [callbacks |-> <<>>, schedule |-> <<>>, renderers |-> EmptyDict]

(***************************************************************************)
(* GrowArrow (src/janim/animation/growing.py).  An arrow is a straight     *)
(* body from points[1] to points[2] and a tip placed at the end of the     *)
(* body; coordinates are floats along the line of the arrow.               *)
(***************************************************************************)
\* the direction of the body: -1, 0 or 1
Sign(x) == IF x > 0 THEN 1 ELSE IF x < 0 THEN 0 - 1 ELSE 0

\* Arrow.place_tip: the tip is put at the end of the body, along its direction
place_tip(arrow) ==
    [arrow EXCEPT !.tip = [at |-> arrow.points[2],
                           dir |-> Sign(arrow.points[2] - arrow.points[1])]]

\* an arrow from start to end_, as constructed
Arrow(start, end_) == place_tip([points |-> <<start, end_>>, tip |-> <<>>])

\* the point at parameter t of the body of other
point_from_proportion(other, t) ==
    FAdd(other.points[1], FMul(t, FSub(other.points[2], other.points[1])))

\* VItem.pointwise_become_partial(other, a, b): the body becomes the part of
\* the body of other between the parameters a and b
pointwise_become_partial(arrow, other, a, b) ==
    [arrow EXCEPT !.points = <<point_from_proportion(other, a),
                               point_from_proportion(other, b)>>]

\* GrowArrow.__init__
GrowArrow(arrow) ==
    [phase |-> "Constructed", arrow |-> arrow, arrow_copy |-> <<>>, visible |-> FALSE,
     op |-> "-", alpha |-> 0, prev_op |-> "-", prev_alpha |-> 0, before |-> arrow,
     landed |-> FALSE]

\* GrowArrow.begin
GrowArrow_begin(self) ==
    [self EXCEPT !.visible = TRUE, !.arrow_copy = self.arrow]

\* faulty variant: the part is taken of the arrow itself, not of the snapshot
GrowArrow_interpolate_in_place(self, alpha) ==
    [self EXCEPT !.arrow = place_tip(pointwise_become_partial(@, self.arrow, 0, alpha))]

\* GrowArrow.interpolate
GrowArrow_interpolate(self, alpha) ==
    [self EXCEPT !.arrow = place_tip(pointwise_become_partial(@, self.arrow_copy, 0, alpha))]

\* faulty variant: finish leaves the arrow as the last interpolate left it
GrowArrow_finish_as_is(self) == self

\* GrowArrow.finish
GrowArrow_finish(self) == GrowArrow_interpolate(self, FromInt(1))

\* what the step op(alpha) leaves in grow, given the animation after the call
GrowStep(self, op, alpha, phase) ==
    [self EXCEPT !.phase = phase, !.op = op, !.alpha = alpha,
                 !.prev_op = grow.op, !.prev_alpha = grow.alpha,
                 !.before = grow.arrow,
                 !.landed = grow.landed \/ (op = "interpolate" /\ alpha = FromInt(1))]

\* the animation is begun
begin ==
    /\ grow.phase = "Constructed"
    /\ grow' = GrowStep(GrowArrow_begin(grow), "begin", 0, "Began")
    /\ UNCHANGED <<stacks, live, group, out, timeline, vitem>>

\* the animation is interpolated at alpha
interpolate(alpha) ==
    /\ grow.phase = "Began"
    /\ grow' = GrowStep(GrowArrow_interpolate(grow, alpha), "interpolate", alpha, "Began")
    /\ UNCHANGED <<stacks, live, group, out, timeline, vitem>>

\* the animation is finished
finish ==
    /\ grow.phase = "Began"
    /\ grow' = GrowStep(GrowArrow_finish(grow), "finish", FromInt(1), "Finished")
    /\ UNCHANGED <<stacks, live, group, out, timeline, vitem>>

(***************************************************************************)
(* VItem (src/janim/items/vitem.py): the points and the cached unit        *)
(* normal.  Points lie in the xy-plane and are given as <<x, y>>; a vector *)
(* is <<x, y, z>>.                                                         *)
(***************************************************************************)
OUT == <<0, 0, 1>>

\* the constant IN of janim.constants
IN_ == <<0, 0, 0 - 1>>

DOWN == <<0, 0 - 1, 0>>

\* VItem.__init__ with its default arguments: a stroke width of 0.05, in
\* hundredths, and one row of fill, white with opacity 0; a row of fill is
\* <<colour, opacity>>
VItem ==
    [points |-> <<>>, unit_normal |-> OUT, needs_new_unit_normal |-> TRUE,
     stroke_width |-> <<5>>, needs_new_stroke_width |-> TRUE,
     fill_rgbas |-> <<<<"WHITE", 0>>>>, needs_new_fill_rgbas |-> TRUE,
     op |-> "-", ret |-> OUT, recomputed |-> FALSE, reads |-> 0, first |-> OUT]

\* faulty variant: only the unit normal is marked
points_changed_normal_only(self) ==
    [self EXCEPT !.needs_new_unit_normal = TRUE]

\* VItem.points_changed
points_changed(self) ==
    [self EXCEPT !.needs_new_unit_normal = TRUE,
                 !.needs_new_stroke_width = TRUE,
                 !.needs_new_fill_rgbas = TRUE]

\* resize_array(points, length): the first length elements, the array being
\* repeated when it is shorter
resize_array(points, length) ==
    IF length <= Len(points) THEN SubSeq(points, 1, length)
    ELSE [i \in 1..length |-> points[((i - 1) % Len(points)) + 1]]

\* VItem.set_points: the points are cut to a multiple of 3 and the change is signalled
VItem_set_points(self, points) ==
    points_changed([self EXCEPT !.points = resize_array(points, (Len(points) \div 3) * 3)])

\* VItem.get_start_points: self.get_points()[::3]
get_start_points(self) ==
    [i \in 1..((Len(self.points) + 2) \div 3) |-> self.points[3 * (i - 1) + 1]]

\* the sum of the first n elements of seq
RECURSIVE Sum(_, _)
Sum(seq, n) == IF n = 0 THEN 0 ELSE Sum(seq, n - 1) + seq[n]

\* VItem.get_area_vector, doubled: for points in the xy-plane only the z
\* component, the sum of (x0 + x1) * (y1 - y0) over the edges, can differ from 0
get_area_vector(self) ==
    LET p0 == get_start_points(self)
        n  == Len(p0)
        p1 == [i \in 1..n |-> p0[(i % n) + 1]]
        term == [i \in 1..n |-> (p0[i][1] + p1[i][1]) * (p1[i][2] - p0[i][2])]
    IN  IF self.points = <<>> THEN <<0, 0, 0>> ELSE <<0, 0, Sum(term, n)>>

\* space_ops.get_unit_normal(v1, v2): the normalised cross product, DOWN when it vanishes
space_ops_get_unit_normal(v1, v2) ==
    LET cp == v1[1] * v2[2] - v1[2] * v2[1]
    IN  IF cp > 0 THEN OUT ELSE IF cp < 0 THEN IN_ ELSE DOWN

\* the normal get_unit_normal computes from at least 3 points
ComputedNormal(self) ==
    LET area_vect == get_area_vector(self)
        points    == self.points
    IN  IF Abs(area_vect[3]) > 0
        THEN <<0, 0, Sign(area_vect[3])>>
        ELSE space_ops_get_unit_normal(
                 <<points[2][1] - points[1][1], points[2][2] - points[1][2]>>,
                 <<points[3][1] - points[2][1], points[3][2] - points[2][2]>>)

\* VItem.get_unit_normal: the item after the call and the value returned;
\* recomputed tells whether the call went past the cache test
VItem_get_unit_normal(self) ==
    IF ~self.needs_new_unit_normal
    THEN [self |-> self, ret |-> self.unit_normal, recomputed |-> FALSE]
    ELSE LET s1 == [self EXCEPT !.needs_new_unit_normal = FALSE]
         IN  IF Len(self.points) < 3
             THEN [self |-> s1, ret |-> OUT, recomputed |-> TRUE]
             ELSE [self |-> [s1 EXCEPT !.unit_normal = ComputedNormal(self)],
                   ret |-> ComputedNormal(self), recomputed |-> TRUE]

\* VItem.points_count
points_count(self) == Len(self.points)

\* max(a, b)
Max(a, b) == IF a >= b THEN a ELSE b

\* resize_with_interpolation(nparray, length): length values at evenly spaced
\* positions of the array, interpolated linearly between neighbours; the
\* values are whole numbers of hundredths and an interpolated value is cut to
\* a whole number
resize_with_interpolation(nparray, length) ==
    IF Len(nparray) = length THEN nparray
    ELSE [i \in 1..length |->
             IF length = 1 THEN nparray[1]
             ELSE LET num == (i - 1) * (Len(nparray) - 1)
                      den == length - 1
                      lh  == num \div den
                      a   == num % den
                      rh  == IF a = 0 THEN lh ELSE lh + 1
                  IN  ((den - a) * nparray[lh + 1] + a * nparray[rh + 1]) \div den]

\* VItem.set_stroke_width for an iterable of widths
VItem_set_stroke_width(self, stroke_width) ==
    [self EXCEPT !.stroke_width =
        resize_with_interpolation(stroke_width, Max(1, points_count(self)))]

\* faulty variant: the read clears all three flags
VItem_get_stroke_width_clears_all(self) ==
    IF self.needs_new_stroke_width
    THEN [VItem_set_stroke_width(self, self.stroke_width) EXCEPT
             !.needs_new_stroke_width = FALSE,
             !.needs_new_unit_normal = FALSE,
             !.needs_new_fill_rgbas = FALSE]
    ELSE self

\* VItem.get_stroke_width: the item after the call; self.stroke_width is returned
VItem_get_stroke_width(self) ==
    IF self.needs_new_stroke_width
    THEN [VItem_set_stroke_width(self, self.stroke_width) EXCEPT
             !.needs_new_stroke_width = FALSE]
    ELSE self

\* VItem.set_fill_rgbas; fill_rgbas_changed only tells the renderer, which is
\* not part of the item's state here
VItem_set_fill_rgbas(self, rgbas) ==
    [self EXCEPT !.fill_rgbas = resize_array(rgbas, Max(1, points_count(self)))]

\* VItem.set_fill_opacity for one opacity
VItem_set_fill_opacity(self, opacity) ==
    [self EXCEPT !.fill_rgbas =
        [i \in 1..Len(self.fill_rgbas) |-> <<self.fill_rgbas[i][1], opacity>>]]

\* VItem.get_fill_rgbas: the item after the call; self.fill_rgbas is returned
VItem_get_fill_rgbas(self) ==
    IF self.needs_new_fill_rgbas
    THEN [VItem_set_fill_rgbas(self, self.fill_rgbas) EXCEPT
             !.needs_new_fill_rgbas = FALSE]
    ELSE self

\* the stroke width is set
set_stroke_width(stroke_width) ==
    /\ vitem' = [VItem_set_stroke_width(vitem, stroke_width) EXCEPT
                    !.op = "set_stroke_width"]
    /\ UNCHANGED <<stacks, live, group, out, timeline, grow>>

\* the stroke width is read
get_stroke_width ==
    /\ vitem' = [VItem_get_stroke_width(vitem) EXCEPT !.op = "get_stroke_width"]
    /\ UNCHANGED <<stacks, live, group, out, timeline, grow>>

\* the fill is set
set_fill_rgbas(rgbas) ==
    /\ vitem' = [VItem_set_fill_rgbas(vitem, rgbas) EXCEPT !.op = "set_fill_rgbas"]
    /\ UNCHANGED <<stacks, live, group, out, timeline, grow>>

\* the opacity of the fill is set
set_fill_opacity(opacity) ==
    /\ vitem' = [VItem_set_fill_opacity(vitem, opacity) EXCEPT !.op = "set_fill_opacity"]
    /\ UNCHANGED <<stacks, live, group, out, timeline, grow>>

\* the fill is read
get_fill_rgbas ==
    /\ vitem' = [VItem_get_fill_rgbas(vitem) EXCEPT !.op = "get_fill_rgbas"]
    /\ UNCHANGED <<stacks, live, group, out, timeline, grow>>

\* the points of the item are set
set_points(points) ==
    /\ vitem' = [VItem_set_points(vitem, points) EXCEPT !.op = "set_points", !.reads = 0]
    /\ UNCHANGED <<stacks, live, group, out, timeline, grow>>

\* the unit normal is read; reads counts the reads since the last change of
\* the points and first is what the first of them returned
get_unit_normal ==
    LET r == VItem_get_unit_normal(vitem)
    IN  /\ vitem' = [r.self EXCEPT !.op = "get_unit_normal", !.ret = r.ret,
                                   !.recomputed = r.recomputed,
                                   !.reads = IF vitem.reads < 2 THEN vitem.reads + 1 ELSE 2,
                                   !.first = IF vitem.reads = 0 THEN r.ret ELSE vitem.first]
        /\ UNCHANGED <<stacks, live, group, out, timeline, grow>>

(***************************************************************************)
(* Post-updaters (src/janim/anims/updater.py).  The function of an updater *)
(* is a user function, named by a number, or the lambda add_post_updater   *)
(* makes of two functions.  A function runs in a world: the objects it can *)
(* be given, here the item and the working data, and the log of the calls  *)
(* of user functions, each with the object and the parameters it was       *)
(* given.                                                                  *)
(***************************************************************************)
\* a user function
UserFunc(name) == [name |-> name]

\* lambda data, p: _call_two_func(orig_func, func, data, p)
PostLambda(orig_func, func) == [orig_func |-> orig_func, func |-> func]

IsPostLambda(func) == "orig_func" \in DOMAIN func

\* a user function called as func(data, p), data being the object obj of the
\* world w: it changes the object, an item or a group of items
call_user_func(func, w, obj, p) ==
    [heap  |-> [w.heap EXCEPT ![obj] =
                   IF "hist" \in DOMAIN @ THEN call_func(func.name, @, p.alpha)
                   ELSE call_group_func(func.name, @, p.alpha)],
     calls |-> Append(w.calls, [func |-> func.name, data |-> obj, p |-> p])]

RECURSIVE call_updater_func(_, _, _, _)

\* faulty variant: the second function is called first
call_two_func_swapped(func1, func2, w, obj, p) ==
    call_updater_func(func1, call_updater_func(func2, w, obj, p), obj, p)

\* _call_two_func(func1, func2, data, p)
call_two_func(func1, func2, w, obj, p) ==
    call_updater_func(func2, call_updater_func(func1, w, obj, p), obj, p)

\* func(data, p) for the function of an updater
call_updater_func(func, w, obj, p) ==
    IF IsPostLambda(func) THEN call_two_func(func.orig_func, func.func, w, obj, p)
    ELSE call_user_func(func, w, obj, p)

\* faulty variant: the new function takes the place of the original one
DataUpdater_add_post_updater_replacing(self, func) ==
    [self EXCEPT !.func = func]

\* DataUpdater.add_post_updater
DataUpdater_add_post_updater(self, func) ==
    LET orig_func == self.func
    IN  [self EXCEPT !.func = PostLambda(orig_func, func)]

\* faulty variant: the original function runs after the new one
GroupUpdater_add_post_updater_first(self, func) ==
    LET orig_func == self.func
    IN  [self EXCEPT !.func = PostLambda(func, orig_func)]

\* GroupUpdater.add_post_updater
GroupUpdater_add_post_updater(self, func) ==
    LET orig_func == self.func
    IN  [self EXCEPT !.func = PostLambda(orig_func, func)]

\* _DataUpdater.apply, the function being any function value
SubDataUpdater_apply(self, w, obj, global_t) ==
    LET params == UpdaterParams(global_t,
                                get_sub_alpha(self, get_alpha_on_global_t(self, global_t)),
                                self.t_range, None, "_DataUpdater")
    IN  call_updater_func(self.func, w, obj, params)

\* GroupUpdater.apply_for_group, the function being any function value: the
\* updater and the world after the call
GroupUpdater_apply_for_group(self, w, global_t) ==
    IF self.applied THEN [self |-> self, w |-> w]
    ELSE LET params == UpdaterParams(global_t, get_alpha_on_global_t(self, global_t),
                                     self.t_range, None, "GroupUpdater")
         IN  [self |-> [self EXCEPT !.applied = TRUE],
              w    |-> call_updater_func(self.func, w, "data", params)]

\* a DataUpdater on the root item only, or a GroupUpdater, newly constructed
\* with the user function 0, on an item in the state base
PostUpdater(kind, become_at_end, base) ==
    [kind |-> kind,
     self |-> IF kind = "DataUpdater"
              THEN DataUpdater("N", UserFunc(0), <<0, 2>>, 0, become_at_end, TRUE, TRUE)
              ELSE GroupUpdater("N", UserFunc(0), <<0, 2>>, become_at_end),
     fixed |-> FALSE, sub_updater |-> None, posts |-> <<>>, taken |-> 0,
     heap |-> [item |-> base, data |-> base], base |-> base,
     op |-> "-", calls |-> <<>>, passed |-> None, t |-> 0]

\* the updater is given the post-updater named func
add_post_updater(func) ==
    /\ upd' = [upd EXCEPT
                  !.self = IF upd.kind = "DataUpdater"
                           THEN DataUpdater_add_post_updater(@, UserFunc(func))
                           ELSE GroupUpdater_add_post_updater(@, UserFunc(func)),
                  !.posts = Append(@, func),
                  !.op = "add_post_updater", !.calls = <<>>, !.passed = None]
    /\ UNCHANGED <<ambient, textures, fonts>>

\* _time_fixed of the updater: a DataUpdater hands its function to its
\* sub-updater; with become_at_end the function is run at the end of the range,
\* by a DataUpdater on the state computed for the item, by a GroupUpdater on
\* the item itself
post_time_fixed ==
    LET self == upd.self
        end  == self.t_range[2]
        w0   == [heap |-> [upd.heap EXCEPT !.data = upd.heap.item], calls |-> <<>>]
    IN  /\ ~upd.fixed
        /\ IF upd.kind = "DataUpdater"
           THEN LET sub_updater == SubDataUpdater(self.item, self.func, self.lag_ratio,
                                                  0, 1, self.t_range)
                    w1 == SubDataUpdater_apply(sub_updater, w0, "data", end)
                IN  upd' = [upd EXCEPT
                               !.fixed = TRUE, !.sub_updater = sub_updater,
                               !.taken = Len(upd.posts),
                               !.heap = IF self.become_at_end
                                        THEN [w1.heap EXCEPT !.item = w1.heap.data]
                                        ELSE @,
                               !.calls = IF self.become_at_end THEN w1.calls ELSE <<>>,
                               !.passed = IF self.become_at_end THEN "data" ELSE None,
                               !.op = "_time_fixed", !.t = end]
           ELSE LET p  == UpdaterParams(end, FromInt(1), self.t_range, None, "GroupUpdater")
                    w1 == call_updater_func(self.func, w0, "item", p)
                IN  upd' = [upd EXCEPT
                               !.fixed = TRUE,
                               !.sub_updater = SubGroupUpdater(self, self.item),
                               !.taken = Len(upd.posts),
                               !.heap = IF self.become_at_end THEN w1.heap ELSE w0.heap,
                               !.calls = IF self.become_at_end THEN w1.calls ELSE <<>>,
                               !.passed = IF self.become_at_end THEN "item" ELSE None,
                               !.op = "_time_fixed", !.t = end]
        /\ UNCHANGED <<ambient, textures, fonts>>

\* the sub-updater is applied at the global time t to the working data, which
\* starts from the state the item had before the updater; a GroupUpdater has
\* pre_apply called first
post_apply(t) ==
    LET self == upd.self
        w0   == [heap |-> [upd.heap EXCEPT !.data = upd.base], calls |-> <<>>]
    IN  /\ upd.fixed
        /\ IF upd.kind = "DataUpdater"
           THEN LET w1 == SubDataUpdater_apply(upd.sub_updater, w0, "data", t)
                IN  upd' = [upd EXCEPT !.heap = w1.heap, !.calls = w1.calls,
                                       !.passed = "data", !.op = "apply", !.t = t]
           ELSE LET r == GroupUpdater_apply_for_group([self EXCEPT !.applied = FALSE], w0, t)
                IN  upd' = [upd EXCEPT !.self = r.self, !.taken = Len(upd.posts),
                                       !.heap = r.w.heap, !.calls = r.w.calls,
                                       !.passed = "data", !.op = "apply", !.t = t]
        /\ UNCHANGED <<ambient, textures, fonts>>

(***************************************************************************)
(* The ambient updater parameters (src/janim/anims/updater.py):            *)
(* updater_params_ctx is a context variable, set on entry to               *)
(* `with UpdaterParams(..)` and reset with the token on exit.  The value   *)
(* of the variable is <<>> while it holds nothing and <<p>> while it holds *)
(* the record p.  A user function may ask for the state of another item    *)
(* and so start a sample inside its own; it may raise, and the function    *)
(* around a nested sample may catch what comes out of it.                  *)
(***************************************************************************)
\* updater_params_ctx = ContextVar('updater_params_ctx'): it holds no value
ContextVar == <<>>

\* ContextVar.set(value): the variable after the call and the token returned
ContextVar_set(var, value) == [var |-> <<value>>, token |-> [old_value |-> var]]

\* ContextVar.reset(token)
ContextVar_reset(var, token) == token.old_value

\* UpdaterParams.__enter__: the variable after the call and the record with its token
UpdaterParams_enter(self, var) ==
    LET r == ContextVar_set(var, self)
    IN  [var |-> r.var, self |-> [params |-> self, token |-> r.token]]

\* faulty variant: the variable is emptied, not reset with the token
UpdaterParams_exit_clearing(self, var) == ContextVar

\* faulty variant: the variable is left as it is
UpdaterParams_exit_keeping(self, var) == var

\* UpdaterParams.__exit__: the variable after the call; nothing is returned,
\* so an exception goes on to the caller
UpdaterParams_exit(self, var) == ContextVar_reset(var, self.token)

\* no sample is under way
NoSample ==
    [updater_params_ctx |-> ContextVar, frames |-> <<>>, exc |-> FALSE,
     op |-> "-", before |-> <<>>]

\* a with-block is entered, by apply of a sub-updater or by apply_for_group,
\* at top level or from the user function that is running; the user function
\* of the block then runs.  before notes the value the variable had.
with_enter(global_t, alpha, updater) ==
    LET self == UpdaterParams(global_t, alpha, <<0, 2>>, None, updater)
        r    == UpdaterParams_enter(self, ambient.updater_params_ctx)
    IN  /\ ~ambient.exc
        /\ ambient' = [ambient EXCEPT
                          !.updater_params_ctx = r.var,
                          !.frames = Append(@, [params |-> r.self.params,
                                                token |-> r.self.token,
                                                before |-> ambient.updater_params_ctx]),
                          !.op = "enter",
                          !.before = ambient.updater_params_ctx]
        /\ UNCHANGED <<upd, textures, fonts>>

\* the innermost with-block is left: __exit__ is called and the block is done
with_exit(op, exc) ==
    LET n     == Len(ambient.frames)
        frame == ambient.frames[n]
    IN  /\ n > 0
        /\ ambient' = [ambient EXCEPT
                          !.updater_params_ctx =
                              UpdaterParams_exit(frame, ambient.updater_params_ctx),
                          !.frames = SubSeq(@, 1, n - 1),
                          !.exc = exc /\ n > 1,
                          !.op = op,
                          !.before = frame.before]
        /\ UNCHANGED <<upd, textures, fonts>>

\* the user function that is running returns
func_return == ~ambient.exc /\ with_exit("return", FALSE)

\* the user function that is running raises
func_raise == ~ambient.exc /\ with_exit("raise", TRUE)

\* the user function around a nested sample lets the exception through
func_propagate == ambient.exc /\ with_exit("propagate", TRUE)

\* the user function around a nested sample catches the exception and goes on
func_except ==
    /\ ambient.exc
    /\ ambient' = [ambient EXCEPT !.exc = FALSE, !.op = "except"]
    /\ UNCHANGED <<upd, textures, fonts>>

(***************************************************************************)
(* The image cache (src/janim/render/texture.py).  A file has a            *)
(* modification time and data; an image is an object of the list images,   *)
(* named by its place in the list, and holds the data it was loaded with.  *)
(***************************************************************************)
\* find_file(file_path): the path the name resolves to
find_file(file_path) ==
    CASE file_path = "a.png"   -> "/assets/a.png"
      [] file_path = "./a.png" -> "/assets/a.png"
      [] file_path = "b.png"   -> "/assets/b.png"

\* os.path.getmtime(file_path)
getmtime(files, file_path) == files[file_path].mtime

\* Image.open(file_path).convert('RGBA'): the file is opened and a new image
\* holds its data; opened logs the key the file was opened for
Image_open(tx, file_path, key) ==
    [tx EXCEPT !.images = Append(@, [data |-> tx.files[file_path].data]),
               !.opened = Append(@, [key |-> key, img |-> Len(tx.images) + 1])]

\* faulty variant: the key is the path alone
get_img_from_file_by_path(tx, name) ==
    LET file_path == find_file(name)
        key       == <<file_path, 0>>
    IN  IF key \in DOMAIN tx.filepath_to_img_map
        THEN [tx |-> tx, img |-> tx.filepath_to_img_map[key]]
        ELSE LET tx1 == Image_open(tx, file_path, key)
                 img == Len(tx1.images)
             IN  [tx  |-> [tx1 EXCEPT !.filepath_to_img_map = DictSet(@, key, img)],
                  img |-> img]

\* faulty variant: the image is loaded anew whenever the file was modified
\* since the last call for it, and takes the place of the cached one
get_img_from_file_reloading(tx, name) ==
    LET file_path == find_file(name)
        mtime     == getmtime(tx.files, file_path)
        key       == <<file_path, mtime>>
    IN  IF key \in DOMAIN tx.filepath_to_img_map /\ tx.last[file_path].mtime = mtime
        THEN [tx |-> tx, img |-> tx.filepath_to_img_map[key]]
        ELSE LET tx1 == Image_open(tx, file_path, key)
                 img == Len(tx1.images)
             IN  [tx  |-> [tx1 EXCEPT !.filepath_to_img_map = DictSet(@, key, img)],
                  img |-> img]

\* get_img_from_file(file_path): the caches after the call and the image returned
get_img_from_file(tx, name) ==
    LET file_path == find_file(name)
        mtime     == getmtime(tx.files, file_path)
        key       == <<file_path, mtime>>
    IN  IF key \in DOMAIN tx.filepath_to_img_map
        THEN [tx |-> tx, img |-> tx.filepath_to_img_map[key]]
        ELSE LET tx1 == Image_open(tx, file_path, key)
                 img == Len(tx1.images)
             IN  [tx  |-> [tx1 EXCEPT !.filepath_to_img_map = DictSet(@, key, img)],
                  img |-> img]

\* the files on disk
Paths == {"/assets/a.png", "/assets/b.png"}

\* the image cache of a session that has asked for no image; last notes, per
\* path, the modification time and the image of the latest call, 0 when none;
\* before is what last held for the path when the latest call began,
\* cached_before whether the cache had an entry for its key, loaded whether
\* the call opened the file
NoImages(files) ==
    [files |-> files, filepath_to_img_map |-> EmptyDict, images |-> <<>>,
     opened |-> <<>>, last |-> [p \in Paths |-> [mtime |-> 0, img |-> 0]],
     op |-> "-", name |-> "-", ret |-> 0, before |-> [mtime |-> 0, img |-> 0],
     cached_before |-> FALSE, loaded |-> FALSE]

\* an image is asked for by name
get_img(name) ==
    LET r         == get_img_from_file(textures, name)
        file_path == find_file(name)
        mtime     == textures.files[file_path].mtime
    IN  /\ textures' = [r.tx EXCEPT
                           !.op = "get_img_from_file", !.name = name, !.ret = r.img,
                           !.before = textures.last[file_path],
                           !.cached_before =
                               <<file_path, mtime>> \in DOMAIN textures.filepath_to_img_map,
                           !.loaded = Len(r.tx.opened) > Len(textures.opened),
                           !.last[file_path] = [mtime |-> mtime, img |-> r.img]]
        /\ UNCHANGED <<upd, ambient, fonts>>

\* a file is written or replaced: it has the modification time mtime and the
\* data from then on
modify(file_path, mtime, data) ==
    /\ textures.files[file_path] # [mtime |-> mtime, data |-> data]
    /\ textures' = [textures EXCEPT !.files[file_path] = [mtime |-> mtime, data |-> data],
                                    !.op = "modify", !.name = file_path]
    /\ UNCHANGED <<upd, ambient, fonts>>

(***************************************************************************)
(* The texture cache (src/janim/render/texture.py).  An image has data and *)
(* an address, which is what id(img) gives; once an image is disposed of,  *)
(* its address is free for a later image.  A texture belongs to the render *)
(* context that made it and holds the data it was made from.               *)
(***************************************************************************)
\* id(img)
id_img(tx, img) == tx.images[img].addr

\* Renderer.data_ctx.get().ctx
data_ctx(tx) == tx.ctx

\* ctx.texture(size=.., components=.., data=img.tobytes()): a new texture of
\* the context ctx; img notes the image it was made from
ctx_texture(tx, ctx, img) ==
    [tx EXCEPT !.made = Append(@, [ctx |-> ctx, data |-> tx.images[img].data,
                                   img |-> img])]

\* get_texture_from_img(img): the caches after the call and the texture returned
get_texture_from_img(tx, img) ==
    IF id_img(tx, img) \in DOMAIN tx.img_to_texture_map
    THEN [tx |-> tx, texture |-> tx.img_to_texture_map[id_img(tx, img)]]
    ELSE LET ctx     == data_ctx(tx)
             tx1     == ctx_texture(tx, ctx, img)
             texture == Len(tx1.made)
         IN  [tx |-> [tx1 EXCEPT !.img_to_texture_map = DictSet(@, id_img(tx, img), texture)],
              texture |-> texture]

\* the texture cache of a session with the render context ctx and no image
NoTextures(ctx) ==
    [images |-> <<>>, img_to_texture_map |-> EmptyDict, made |-> <<>>, ctx |-> ctx,
     op |-> "-", img |-> 0, ret |-> 0]

\* an image with the data is made, at an address no live image has
new_image(data, addr) ==
    /\ \A i \in DOMAIN textures.images :
          textures.images[i].alive => textures.images[i].addr # addr
    /\ textures' = [textures EXCEPT
                       !.images = Append(@, [data |-> data, addr |-> addr, alive |-> TRUE]),
                       !.op = "new_image", !.img = Len(textures.images) + 1]
    /\ UNCHANGED <<upd, ambient, fonts>>

\* the image img is disposed of
dispose(img) ==
    /\ textures.images[img].alive
    /\ textures' = [textures EXCEPT !.images[img].alive = FALSE,
                                    !.op = "dispose", !.img = img]
    /\ UNCHANGED <<upd, ambient, fonts>>

\* another render context becomes the current one
set_data_ctx(ctx) ==
    /\ textures.ctx # ctx
    /\ textures' = [textures EXCEPT !.ctx = ctx, !.op = "set_data_ctx"]
    /\ UNCHANGED <<upd, ambient, fonts>>

\* the texture of the live image img is asked for
get_texture(img) ==
    LET r == get_texture_from_img(textures, img)
    IN  /\ textures.images[img].alive
        /\ textures' = [r.tx EXCEPT !.op = "get_texture_from_img", !.img = img,
                                    !.ret = r.texture]
        /\ UNCHANGED <<upd, ambient, fonts>>

(***************************************************************************)
(* Fonts (src/janim/utils/font.py).  A font file is described by the names *)
(* of its name table and by its OS/2 table, <<>> when it has none.  A      *)
(* weight asked for is a number, [int |-> 700], or a name, [name |->       *)
(* "bold"].                                                                *)
(***************************************************************************)
\* weight_mapping
weight_mapping ==
    "thin" :> 100 @@ "extralight" :> 200 @@ "light" :> 300 @@ "regular" :> 400 @@
    "medium" :> 500 @@ "semibold" :> 600 @@ "bold" :> 700 @@ "extrabold" :> 800 @@
    "black" :> 900

\* FontInfo.__init__; family, full and debug are what getBestFamilyName,
\* getBestFullName and getDebugName(4) give for the name table of the font
FontInfo(filepath, index, family, full, debug, os2) ==
    [filepath |-> filepath, index |-> index, family_name |-> family,
     full_name |-> full, debug_name |-> debug, os2 |-> os2]

\* FontInfo.weight
FontInfo_weight(self) ==
    IF self.os2 = <<>> THEN 400 ELSE self.os2[1].usWeightClass

\* whether fs_selection & mask is not 0, mask being a power of 2
BitSet(fs_selection, mask) == (fs_selection \div mask) % 2 = 1

\* FontInfo.style
FontInfo_style(self) ==
    IF self.os2 = <<>> THEN "normal"
    ELSE LET fs_selection == self.os2[1].fsSelection
         IN  IF BitSet(fs_selection, 1) THEN "italic"
             ELSE IF BitSet(fs_selection, 512) THEN "oblique"
             ELSE "normal"

\* FontFamily.style_distance
style_distance(s1, s2) ==
    IF s1 = s2 THEN 0
    ELSE IF s1 # "normal" /\ s2 # "normal" THEN 1
    ELSE 2

\* key < best_key for tuples of three numbers
TupleLess(key, best_key) ==
    \/ key[1] < best_key[1]
    \/ key[1] = best_key[1] /\ key[2] < best_key[2]
    \/ key[1] = best_key[1] /\ key[2] = best_key[2] /\ key[3] < best_key[3]

\* the loop of the faulty variant below: a later variant with an equal key
\* replaces the best one
RECURSIVE find_best_variant_loop_last(_, _, _, _, _, _)
find_best_variant_loop_last(infos, weight, style, i, best, best_key) ==
    IF i > Len(infos) THEN best
    ELSE LET info == infos[i]
             key  == <<style_distance(FontInfo_style(info), style),
                       Abs(FontInfo_weight(info) - weight),
                       0 - FontInfo_weight(info)>>
         IN  IF i = 1 \/ ~TupleLess(best_key, key)
             THEN find_best_variant_loop_last(infos, weight, style, i + 1, info, key)
             ELSE find_best_variant_loop_last(infos, weight, style, i + 1, best, best_key)

\* the loop of find_best_variant from the i-th variant on
RECURSIVE find_best_variant_loop(_, _, _, _, _, _)
find_best_variant_loop(infos, weight, style, i, best, best_key) ==
    IF i > Len(infos) THEN best
    ELSE LET info == infos[i]
             key  == <<style_distance(FontInfo_style(info), style),
                       Abs(FontInfo_weight(info) - weight),
                       0 - FontInfo_weight(info)>>
         IN  IF i = 1 \/ TupleLess(key, best_key)
             THEN find_best_variant_loop(infos, weight, style, i + 1, info, key)
             ELSE find_best_variant_loop(infos, weight, style, i + 1, best, best_key)

\* isinstance(weight, int)
IsInt(weight) == "int" \in DOMAIN weight

\* faulty variant: among variants with equal keys the one added last is returned
FontFamily_find_best_variant_last(self, weight, style) ==
    IF Len(self.infos) = 1 THEN self.infos[1]
    ELSE find_best_variant_loop_last(self.infos,
                                     IF ~IsInt(weight) THEN weight_mapping[weight.name]
                                     ELSE weight.int,
                                     style, 1, self.infos[1], <<0, 0, 0>>)

\* FontFamily.find_best_variant
FontFamily_find_best_variant(self, weight, style) ==
    IF Len(self.infos) = 1 THEN self.infos[1]
    ELSE find_best_variant_loop(self.infos,
                                IF ~IsInt(weight) THEN weight_mapping[weight.name]
                                ELSE weight.int,
                                style, 1, self.infos[1], <<0, 0, 0>>)

\* FontFamily.add
FontFamily_add(self, info) == [infos |-> Append(self.infos, info)]

\* font_by_full_name[full_name] = info: a dict keeps the place of a key that
\* is assigned again
FullNameSet(d, full_name, info) ==
    [keys |-> IF full_name \in DOMAIN d.at THEN d.keys ELSE Append(d.keys, full_name),
     at   |-> DictSet(d.at, full_name, info)]

\* get_database over the font files found, from the i-th on
RECURSIVE get_database(_, _, _)
get_database(system_fonts, i, db) ==
    IF i > Len(system_fonts) THEN db
    ELSE LET info == system_fonts[i]
         IN  get_database(system_fonts, i + 1,
                 [family_by_name |->
                      DictSet(db.family_by_name, info.family_name,
                              FontFamily_add(DictGet(db.family_by_name, info.family_name,
                                                     [infos |-> <<>>]), info)),
                  font_by_full_name |->
                      FullNameSet(db.font_by_full_name, info.full_name, info)])

\* FontDatabase(defaultdict(FontFamily), {})
FontDatabase ==
    [family_by_name |-> EmptyDict,
     font_by_full_name |-> [keys |-> <<>>, at |-> EmptyDict]]

\* the deprecated lookup: the first font of font_by_full_name, from the i-th
\* on, whose debug name is name; 0 when there is none
RECURSIVE debug_name_lookup(_, _, _)
debug_name_lookup(d, name, i) ==
    IF i > Len(d.keys) THEN 0
    ELSE IF d.at[d.keys[i]].debug_name = name THEN i
    ELSE debug_name_lookup(d, name, i + 1)

\* faulty variant: the full name is looked up before the family name
get_font_info_by_attrs_full_name_first(db, name, weight, style) ==
    LET i == debug_name_lookup(db.font_by_full_name, name, 1)
    IN  IF name \in DOMAIN db.font_by_full_name.at
        THEN [raised |-> FALSE, ret |-> db.font_by_full_name.at[name]]
        ELSE IF name \in DOMAIN db.family_by_name
        THEN [raised |-> FALSE,
              ret |-> FontFamily_find_best_variant(db.family_by_name[name], weight, style)]
        ELSE IF i # 0
        THEN [raised |-> FALSE,
              ret |-> db.font_by_full_name.at[db.font_by_full_name.keys[i]]]
        ELSE [raised |-> TRUE, ret |-> <<>>]

\* get_font_info_by_attrs: raised tells whether FontNotFoundError is raised
get_font_info_by_attrs(db, name, weight, style) ==
    LET i == debug_name_lookup(db.font_by_full_name, name, 1)
    IN  IF name \in DOMAIN db.family_by_name
        THEN [raised |-> FALSE,
              ret |-> FontFamily_find_best_variant(db.family_by_name[name], weight, style)]
        ELSE IF name \in DOMAIN db.font_by_full_name.at
        THEN [raised |-> FALSE, ret |-> db.font_by_full_name.at[name]]
        ELSE IF i # 0
        THEN [raised |-> FALSE,
              ret |-> db.font_by_full_name.at[db.font_by_full_name.keys[i]]]
        ELSE [raised |-> TRUE, ret |-> <<>>]

\* the best variant of a family of the database is asked for
find_best_variant(family, weight, style) ==
    /\ family \in DOMAIN fonts.database.family_by_name
    /\ fonts' = [fonts EXCEPT
                    !.op = "find_best_variant", !.name = family, !.weight = weight,
                    !.style = style, !.raised = FALSE,
                    !.ret = FontFamily_find_best_variant(
                                fonts.database.family_by_name[family], weight, style)]
    /\ UNCHANGED <<upd, ambient, textures>>

\* a font is asked for by name, weight and style
font_info_by_attrs(name, weight, style) ==
    LET r == get_font_info_by_attrs(fonts.database, name, weight, style)
    IN  /\ fonts' = [fonts EXCEPT
                        !.op = "get_font_info_by_attrs", !.name = name,
                        !.weight = weight, !.style = style,
                        !.raised = r.raised, !.ret = r.ret]
        /\ UNCHANGED <<upd, ambient, textures>>

\* no timeline has been built
NoGroup == [data |-> EmptyDict, applied |-> FALSE]

NoOut == [op |-> "-"]

\* no updater is post-updated, no sample is under way, no image and no font is asked for
NoAux ==
    /\ upd = EmptyDict
    /\ ambient = EmptyDict
    /\ textures = EmptyDict
    /\ fonts = EmptyDict

\* no ItemUpdater, no GrowArrow and no VItem has been made
NoExt ==
    /\ timeline = EmptyDict
    /\ grow = EmptyDict
    /\ vitem = EmptyDict
    /\ NoAux

NoTimeline ==
    /\ stacks = EmptyDict
    /\ live = EmptyDict
    /\ group = NoGroup
    /\ out = NoOut
    /\ NoExt

\* no signal is declared
NoSignal ==
    /\ slots = EmptyDict
    /\ dirty = {}
    /\ last = NoEmit("init")

(***************************************************************************)
(* Specifications.                                                         *)
(***************************************************************************)
\* after construction: no registration, nothing computed yet
Init ==
    /\ slots = EmptyDict
    /\ dirty = Objects \X RefreshFuncs
    /\ last = NoEmit("init")
    /\ NoTimeline

\* A program that declares the signal in Base and decorates methods in Base
\* and Derived; Cmpt and Node inherit from Base.
ProgKeys == Keys
ProgClasses == {"Base", "Derived"}
ProgSenders == {"a1", "a2", "b", "cm", "G"}
ProgConnected == {"a1", "a2"}
ProgTargets == {"b"}

Next ==
    \/ \E key \in ProgKeys, cls \in ProgClasses, func \in SlotFuncs :
          self_slot(key, cls, func) /\ UNCHANGED updvars
    \/ \E key \in ProgKeys, cls \in ProgClasses, func \in RefreshFuncs :
          self_refresh(key, cls, func) /\ UNCHANGED updvars
    \/ \E key \in ProgKeys, cls \in ProgClasses, func \in RefreshFuncs :
          self_refresh_with_recurse(key, cls, func, FALSE, TRUE) /\ UNCHANGED updvars
    \/ \E key \in ProgKeys, sender \in ProgConnected, func \in SlotFuncs :
          connect(sender, func, key) /\ UNCHANGED updvars
    \/ \E key \in ProgKeys, sender \in ProgConnected, obj \in ProgTargets,
          func \in RefreshFuncs :
          connect_refresh(sender, obj, func, key) /\ UNCHANGED updvars
    \/ \E sender \in ProgSenders, key \in Keys : emit(sender, key) /\ UNCHANGED updvars

Spec == Init /\ [][Next]_vars

\* A program whose class Node decorates its cached computations and whose
\* instances form the relation graph; the computations are read between emits.
GraphSenders == {"P", "S", "N", "C", "G"}

NextGraph ==
    \/ \E func \in RefreshFuncs :
          self_refresh(DefaultKey, "Node", func) /\ UNCHANGED updvars
    \/ \E func \in RefreshFuncs, up \in BOOLEAN, down \in BOOLEAN :
          /\ up \/ down
          /\ self_refresh_with_recurse(DefaultKey, "Node", func, up, down)
          /\ UNCHANGED updvars
    \/ \E func \in RefreshFuncs :
          connect_refresh("N", "S", func, DefaultKey) /\ UNCHANGED updvars
    \/ \E sender \in GraphSenders : emit(sender, DefaultKey) /\ UNCHANGED updvars
    \/ \E obj \in GraphSenders, func \in RefreshFuncs :
          Read(obj, func) /\ UNCHANGED updvars

SpecGraph == Init /\ [][NextGraph]_vars

\* A sub-updater of a DataUpdater over count items, asked for its sub-alpha at
\* one alpha after the other.
MaxCount == 3

AlphaSteps == 4

LagSteps == 20

MaxLag == 30

\* the alphas asked for: the floats nearest to k / AlphaSteps, from below 0 to above 1
Alphas == {fl(k * Unit, AlphaSteps) : k \in (0 - 1)..(AlphaSteps + 1)}

\* the lag ratios: the floats nearest to k / LagSteps, one of them negative
LagRatios == {fl(k * Unit, LagSteps) : k \in (0 - 1)..MaxLag}

InitAlpha ==
    /\ NoSignal
    /\ NoExt
    /\ stacks = EmptyDict
    /\ live = EmptyDict
    /\ group = NoGroup
    /\ \E count \in 1..MaxCount, lag_ratio \in LagRatios :
          \E index \in 0..(count - 1) :
              out = [op |-> "sub_updater",
                     self |-> SubDataUpdater("R", "f", lag_ratio, index, count, <<0, 1>>),
                     alpha |-> 0, value |-> 0]

NextAlpha == \E alpha \in Alphas : sub_alpha_call(alpha) /\ UNCHANGED <<sigvars, extvars>>

SpecAlpha == InitAlpha /\ [][NextAlpha]_vars

\* A timeline on which DataUpdaters are made on the item N one after the
\* other, the k-th over the range [k - 1, k + 1], and the items are asked for
\* at whole times.
MaxUpdaters == 2

NullChoices == {{}, {"C"}}

InitData ==
    /\ NoSignal
    /\ NoExt
    /\ group = NoGroup
    /\ \E nulls \in NullChoices :
          /\ live = [x \in Items |-> ItemData(x \in nulls)]
          /\ stacks = [x \in Items |-> AnimStack(ItemData(x \in nulls))]
    /\ out = [op |-> "timeline", made |-> 0]

NextData ==
    \/ \E become_at_end \in BOOLEAN, skip_null_items \in BOOLEAN, root_only \in BOOLEAN :
          /\ out.made < MaxUpdaters
          /\ DataUpdater_time_fixed(
                 DataUpdater("N", out.made + 1, <<out.made, out.made + 2>>,
                             IF root_only THEN 0 ELSE Unit \div 2,
                             become_at_end, skip_null_items, root_only))
          /\ UNCHANGED <<sigvars, extvars>>
    \/ \E item \in Items, t \in 1..(MaxUpdaters + 1), get_at_left \in BOOLEAN :
          compute_at(item, t, get_at_left) /\ UNCHANGED <<sigvars, extvars>>

SpecData == InitData /\ [][NextData]_vars

\* A timeline on which a DataUpdater over [0, 3] targets N and its descendants
\* and a GroupUpdater over [1, 3] is made on N; after its _time_fixed the items
\* of the group are sampled at whole times, at the end of the group's range
\* also from the left, in any order.  User functions are
\* named by numbers: 1, 2, .. those of the DataUpdaters, 0 that of the group.
Orders == {<<"N", "C", "G">>, <<"G", "N", "C">>}

InitGroup ==
    /\ NoSignal
    /\ NoExt
    /\ \E become_at_end \in BOOLEAN :
          LET self == DataUpdater("N", 1, <<0, 3>>, Unit \div 2, FALSE, FALSE, FALSE)
              lv   == [x \in Items |-> ItemData(FALSE)]
              st   == DataUpdater_loop(self, DataUpdater_items(self, lv), 1,
                                       [stacks |-> [x \in Items |-> AnimStack(lv[x])],
                                        live |-> lv, subs |-> <<>>])
          IN  /\ live = st.live
              /\ stacks = st.stacks
              /\ group = GroupUpdater("N", 0, <<1, 3>>, become_at_end)
    /\ out = [op |-> "timeline", made |-> 1]

NextGroup ==
    \/ GroupUpdater_time_fixed /\ UNCHANGED <<sigvars, extvars>>
    \/ \E t \in 1..(MaxUpdaters + 1), order \in Orders, n \in 1..Cardinality(Items) :
          \E get_at_left \in IF t = group.t_range[2] THEN BOOLEAN ELSE {FALSE} :
              sample(t, order, n, get_at_left) /\ UNCHANGED <<sigvars, extvars>>

SpecGroup == InitGroup /\ [][NextGroup]_vars

\* A timeline on which ItemUpdaters are made, the k-th over the range
\* [k - 1, k + 2], on the item N or on no item; its user function returns a
\* value that is not an item at no time, at the first whole time of the range
\* or at its end.  The render calls are then sampled at whole times.
MaxItemUpdaters == 1

BadChoices(t_range) == {{}, {t_range[1] + 1}, {t_range[2]}}

InitItem ==
    /\ NoSignal
    /\ NoAux
    /\ group = NoGroup
    /\ grow = EmptyDict
    /\ vitem = EmptyDict
    /\ live = [x \in Items |-> ItemData(FALSE)]
    /\ stacks = [x \in Items |-> AnimStack(ItemData(FALSE))]
    /\ timeline = NoCallbacks
    /\ out = [op |-> "timeline", made |-> 0, errored |-> {}]

NextItem ==
    \/ \E item \in {None, "N"}, bad \in BadChoices(<<out.made, out.made + 3>>),
          hide_at_begin \in BOOLEAN, show_at_end \in BOOLEAN, become_at_end \in BOOLEAN :
          /\ out.made < MaxItemUpdaters
          /\ ItemUpdater_time_fixed(
                 ItemUpdater(out.made + 1, item, [name |-> out.made + 1, bad |-> bad],
                             <<out.made, out.made + 3>>,
                             hide_at_begin, show_at_end, become_at_end))
          /\ UNCHANGED <<sigvars, auxvars>>
    \/ \E t \in 1..(MaxUpdaters + 1) : render_sample(t) /\ UNCHANGED <<sigvars, auxvars>>

SpecItem == InitItem /\ [][NextItem]_vars

\* A GrowArrow on one of a few arrows: begun, interpolated at the alphas
\* k / AlphaSteps in any order, then finished.
GrowAlphas == {fl(k * Unit, AlphaSteps) : k \in 0..AlphaSteps}

Arrows == {Arrow(FromInt(0), FromInt(3)),
           Arrow(fl(Unit, 10), fl(7 * Unit, 10)),
           Arrow(FromInt(2), FromInt(0 - 1))}

InitGrow ==
    /\ NoSignal
    /\ NoAux
    /\ stacks = EmptyDict
    /\ live = EmptyDict
    /\ group = NoGroup
    /\ out = NoOut
    /\ timeline = EmptyDict
    /\ vitem = EmptyDict
    /\ \E arrow \in Arrows : grow = GrowArrow(arrow)

NextGrow ==
    \/ begin /\ UNCHANGED <<sigvars, auxvars>>
    \/ \E alpha \in GrowAlphas : interpolate(alpha) /\ UNCHANGED <<sigvars, auxvars>>
    \/ finish /\ UNCHANGED <<sigvars, auxvars>>

SpecGrow == InitGrow /\ [][NextGrow]_vars

\* A VItem whose points are set to one of a few point lists and whose unit
\* normal is read, in any order.
PointLists ==
    {<<>>,
     <<<<0, 0>>, <<1, 0>>>>,
     <<<<0, 0>>, <<1, 0>>, <<1, 1>>>>,
     <<<<0, 0>>, <<1, 0>>, <<1, 0 - 1>>>>,
     <<<<0, 0>>, <<1, 0>>, <<2, 0>>>>,
     <<<<0, 0>>, <<0, 1>>, <<1, 1>>, <<2, 2>>>>,
     <<<<0, 0>>, <<1, 1>>, <<2, 2>>, <<2, 2>>, <<3, 1>>, <<4, 0>>>>,
     <<<<1, 1>>, <<1, 2>>, <<0, 2>>, <<0, 2>>, <<0, 1>>>>,
     <<<<0, 0>>, <<0, 0>>, <<1, 0>>, <<1, 0>>, <<1, 0>>, <<0, 1>>,
       <<0, 1>>, <<0, 1>>, <<0, 0>>>>,
     <<<<0, 0>>, <<0, 0>>, <<0, 1>>, <<0, 1>>, <<0, 1>>, <<1, 0>>,
       <<1, 0>>, <<1, 0>>, <<0, 0>>>>}

InitVItem ==
    /\ NoSignal
    /\ NoAux
    /\ stacks = EmptyDict
    /\ live = EmptyDict
    /\ group = NoGroup
    /\ out = NoOut
    /\ timeline = EmptyDict
    /\ grow = EmptyDict
    /\ vitem = VItem

NextVItem ==
    \/ \E points \in PointLists : set_points(points) /\ UNCHANGED <<sigvars, auxvars>>
    \/ get_unit_normal /\ UNCHANGED <<sigvars, auxvars>>

SpecVItem == InitVItem /\ [][NextVItem]_vars

\* A VItem whose points, stroke width and fill are set, to one of a few values
\* each, and whose unit normal, stroke width and fill are read, in any order.
DirtyPointLists ==
    {<<>>,
     <<<<0, 0>>, <<1, 0>>, <<1, 0 - 1>>>>,
     <<<<0, 0>>, <<1, 1>>, <<2, 2>>, <<2, 2>>, <<3, 1>>, <<4, 0>>>>}

StrokeWidths == {<<2>>, <<2, 8>>}

Fills == {<<<<"RED", 1>>>>, <<<<"RED", 1>>, <<"BLUE", 0>>>>}

NextDirty ==
    \/ \E points \in DirtyPointLists : set_points(points) /\ UNCHANGED <<sigvars, auxvars>>
    \/ get_unit_normal /\ UNCHANGED <<sigvars, auxvars>>
    \/ \E stroke_width \in StrokeWidths :
          set_stroke_width(stroke_width) /\ UNCHANGED <<sigvars, auxvars>>
    \/ get_stroke_width /\ UNCHANGED <<sigvars, auxvars>>
    \/ \E rgbas \in Fills : set_fill_rgbas(rgbas) /\ UNCHANGED <<sigvars, auxvars>>
    \/ set_fill_opacity(1) /\ UNCHANGED <<sigvars, auxvars>>
    \/ get_fill_rgbas /\ UNCHANGED <<sigvars, auxvars>>

SpecDirty == InitVItem /\ [][NextDirty]_vars

\* A DataUpdater or a GroupUpdater over the range [0, 2] with the user
\* function 0: it is given up to MaxPosts post-updaters, named by numbers from
\* 1 on, before or after its _time_fixed, and is applied at whole times.
MaxPosts == 3

InitPost ==
    /\ NoSignal
    /\ stacks = EmptyDict
    /\ live = EmptyDict
    /\ group = NoGroup
    /\ out = NoOut
    /\ timeline = EmptyDict
    /\ grow = EmptyDict
    /\ vitem = EmptyDict
    /\ ambient = EmptyDict
    /\ textures = EmptyDict
    /\ fonts = EmptyDict
    /\ \E kind \in {"DataUpdater", "GroupUpdater"}, become_at_end \in BOOLEAN :
          upd = PostUpdater(kind, become_at_end,
                            IF kind = "DataUpdater" THEN ItemData(FALSE)
                            ELSE [x \in Items |-> ItemData(FALSE)])

NextPost ==
    \/ \E func \in 1..MaxPosts :
          /\ Len(upd.posts) < MaxPosts
          /\ add_post_updater(func)
          /\ UNCHANGED <<sigvars, stacks, live, group, out, timeline, grow, vitem>>
    \/ post_time_fixed /\ UNCHANGED <<sigvars, stacks, live, group, out, timeline, grow, vitem>>
    \/ \E t \in 0..2 :
          post_apply(t) /\ UNCHANGED <<sigvars, stacks, live, group, out, timeline, grow, vitem>>

SpecPost == InitPost /\ [][NextPost]_vars

\* Samples nested up to MaxDepth deep, at the times 1 and 2 of the range
\* [0, 2], made by sub-updaters of DataUpdaters and by GroupUpdaters; any user
\* function may return or raise, and an exception may be caught at any level.
MaxDepth == 3

InitAmbient ==
    /\ NoSignal
    /\ stacks = EmptyDict
    /\ live = EmptyDict
    /\ group = NoGroup
    /\ out = NoOut
    /\ timeline = EmptyDict
    /\ grow = EmptyDict
    /\ vitem = EmptyDict
    /\ upd = EmptyDict
    /\ textures = EmptyDict
    /\ fonts = EmptyDict
    /\ ambient = NoSample

NextAmbient ==
    \/ \E global_t \in 1..2, updater \in {"_DataUpdater", "GroupUpdater"} :
          /\ Len(ambient.frames) < MaxDepth
          /\ with_enter(global_t, fl(global_t * Unit, 2), updater)
          /\ UNCHANGED <<sigvars, stacks, live, group, out, timeline, grow, vitem>>
    \/ func_return /\ UNCHANGED <<sigvars, stacks, live, group, out, timeline, grow, vitem>>
    \/ func_raise /\ UNCHANGED <<sigvars, stacks, live, group, out, timeline, grow, vitem>>
    \/ func_propagate /\ UNCHANGED <<sigvars, stacks, live, group, out, timeline, grow, vitem>>
    \/ func_except /\ UNCHANGED <<sigvars, stacks, live, group, out, timeline, grow, vitem>>

SpecAmbient == InitAmbient /\ [][NextAmbient]_vars

\* Two image files asked for under three names; the first one is written or
\* replaced at any moment and then has any of the modification times
\* 1..MaxMtime, an earlier one included, and any of two data.
MaxMtime == 2

InitImage ==
    /\ NoSignal
    /\ stacks = EmptyDict
    /\ live = EmptyDict
    /\ group = NoGroup
    /\ out = NoOut
    /\ timeline = EmptyDict
    /\ grow = EmptyDict
    /\ vitem = EmptyDict
    /\ upd = EmptyDict
    /\ ambient = EmptyDict
    /\ fonts = EmptyDict
    /\ textures = NoImages([p \in Paths |-> [mtime |-> 1, data |-> 1]])

NextImage ==
    \/ \E name \in {"a.png", "./a.png", "b.png"} :
          get_img(name)
          /\ UNCHANGED <<sigvars, stacks, live, group, out, timeline, grow, vitem>>
    \/ \E mtime \in 1..MaxMtime, data \in 1..2 :
          modify("/assets/a.png", mtime, data)
          /\ UNCHANGED <<sigvars, stacks, live, group, out, timeline, grow, vitem>>

SpecImage == InitImage /\ [][NextImage]_vars

\* Up to MaxImages images are made, with one of two data and at one of two
\* addresses, and disposed of; there are two render contexts; the texture of
\* any live image is asked for at any moment.
MaxImages == 3

InitTexture ==
    /\ NoSignal
    /\ stacks = EmptyDict
    /\ live = EmptyDict
    /\ group = NoGroup
    /\ out = NoOut
    /\ timeline = EmptyDict
    /\ grow = EmptyDict
    /\ vitem = EmptyDict
    /\ upd = EmptyDict
    /\ ambient = EmptyDict
    /\ fonts = EmptyDict
    /\ textures = NoTextures(1)

NextTexture ==
    \/ \E data \in 1..2, addr \in 1..2 :
          /\ Len(textures.images) < MaxImages
          /\ new_image(data, addr)
          /\ UNCHANGED <<sigvars, stacks, live, group, out, timeline, grow, vitem>>
    \/ \E img \in DOMAIN textures.images :
          dispose(img)
          /\ UNCHANGED <<sigvars, stacks, live, group, out, timeline, grow, vitem>>
    \/ \E ctx \in 1..2 :
          set_data_ctx(ctx)
          /\ UNCHANGED <<sigvars, stacks, live, group, out, timeline, grow, vitem>>
    \/ \E img \in DOMAIN textures.images :
          get_texture(img)
          /\ UNCHANGED <<sigvars, stacks, live, group, out, timeline, grow, vitem>>

SpecTexture == InitTexture /\ [][NextTexture]_vars

\* The fonts of a system, in the order they are found: a family Sans with
\* variants of several weights and styles, two of them alike, a family Mono of
\* one font without OS/2 table, a font whose full name is the name of another
\* family, fonts whose debug name is the full name of another font or is no
\* full name at all, and two fonts with one full name.
Regular == FontInfo("sans.ttc", 0, "Sans", "Sans Regular", "Sans Regular",
                    <<[usWeightClass |-> 400, fsSelection |-> 64]>>)

Light == FontInfo("sans.ttc", 1, "Sans", "Sans Light", "Sans-Light",
                  <<[usWeightClass |-> 300, fsSelection |-> 64]>>)

Medium == FontInfo("sans.ttc", 2, "Sans", "Sans Medium", "Sans-Medium",
                   <<[usWeightClass |-> 500, fsSelection |-> 64]>>)

MediumCopy == FontInfo("copy.ttf", 0, "Sans", "Sans Medium", "Sans-Medium-Copy",
                       <<[usWeightClass |-> 500, fsSelection |-> 64]>>)

BoldItalic == FontInfo("sans-bi.ttf", 0, "Sans", "Sans Bold Italic", "Sans-BoldItalic",
                       <<[usWeightClass |-> 700, fsSelection |-> 33]>>)

BoldOblique == FontInfo("sans-bo.ttf", 0, "Sans", "Sans Bold Oblique", "Sans-BoldOblique",
                        <<[usWeightClass |-> 700, fsSelection |-> 544]>>)

Mono == FontInfo("mono.ttf", 0, "Mono", "Mono Regular", "Mono", <<>>)

Serif == FontInfo("serif.ttf", 0, "Serif", "Sans", "Sans Regular",
                  <<[usWeightClass |-> 900, fsSelection |-> 64]>>)

SystemFonts ==
    {<<Regular, Light, Medium, MediumCopy, BoldItalic, BoldOblique, Mono, Serif>>,
     <<Serif, Mono, BoldOblique, BoldItalic, MediumCopy, Medium, Light, Regular>>,
     <<Light, BoldItalic, Serif>>,
     <<Mono, MediumCopy>>}

FontNames == {"Sans", "Mono", "Serif", "Sans Regular", "Sans Medium", "Sans-Medium",
              "Sans-Medium-Copy", "Sans-BoldItalic", "Mono Regular", "Arial"}

Weights == {[int |-> 400], [int |-> 600], [int |-> 850], [name |-> "thin"],
            [name |-> "regular"], [name |-> "bold"]}

Styles == {"normal", "italic", "oblique"}

InitFont ==
    /\ NoSignal
    /\ stacks = EmptyDict
    /\ live = EmptyDict
    /\ group = NoGroup
    /\ out = NoOut
    /\ timeline = EmptyDict
    /\ grow = EmptyDict
    /\ vitem = EmptyDict
    /\ upd = EmptyDict
    /\ ambient = EmptyDict
    /\ textures = EmptyDict
    /\ \E system_fonts \in SystemFonts :
          fonts = [database |-> get_database(system_fonts, 1, FontDatabase),
                   op |-> "-", name |-> "-", weight |-> [int |-> 0], style |-> "normal",
                   raised |-> FALSE, ret |-> <<>>]

NextFont ==
    \/ \E family \in FontNames, weight \in Weights, style \in Styles :
          find_best_variant(family, weight, style)
          /\ UNCHANGED <<sigvars, stacks, live, group, out, timeline, grow, vitem>>
    \/ \E name \in FontNames, weight \in Weights, style \in Styles :
          font_info_by_attrs(name, weight, style)
          /\ UNCHANGED <<sigvars, stacks, live, group, out, timeline, grow, vitem>>

SpecFont == InitFont /\ [][NextFont]_vars

(***************************************************************************)
(* Properties.  The table is read here directly, by key, class and id,     *)
(* not through emit's own walk.                                            *)
(***************************************************************************)
Cnt(seq, P(_)) == Cardinality({i \in DOMAIN seq : P(seq[i])})

CntIn(seq, x) == Cardinality({i \in DOMAIN seq : seq[i] = x})

SelfKinds == {"self_normal", "self_refresh", "self_refresh_with_recurse"}

\* the slots of class cls under key (empty lists when there is no entry)
SelfLevel(key, cls) ==
    IF key \in DOMAIN slots /\ <<ModuleOf[cls], cls>> \in DOMAIN slots[key].self_slots_dict
    THEN slots[key].self_slots_dict[<<ModuleOf[cls], cls>>]
    ELSE SelfSlots_init

\* the slots connected to the instance obj under key
InstLevel(key, obj) ==
    IF key \in DOMAIN slots /\ id[obj] \in DOMAIN slots[key].slots_dict
    THEN slots[key].slots_dict[id[obj]]
    ELSE Slots_init

RECURSIVE SumOver(_, _)
SumOver(f, D) ==
    IF D = {} THEN 0
    ELSE LET x == CHOOSE y \in D : TRUE IN f[x] + SumOver(f, D \ {x})

\* how often func is registered under key in lists of the given kind, over
\* every class and every instance
RegsUnder(key, kind, func) ==
    CASE kind = "self_normal" ->
           SumOver([c \in Classes |-> CntIn(SelfLevel(key, c).self_normal_slots, func)], Classes)
      [] kind = "self_refresh" ->
           SumOver([c \in Classes |-> CntIn(SelfLevel(key, c).self_refresh_slots, func)], Classes)
      [] kind = "self_refresh_with_recurse" ->
           SumOver([c \in Classes |->
                      Cnt(SelfLevel(key, c).self_refresh_slots_with_recurse,
                          LAMBDA sl : sl.func = func)], Classes)
      [] kind = "normal" ->
           SumOver([o \in Objects |-> CntIn(InstLevel(key, o).normal_slots, func)], Objects)
      [] kind = "refresh" ->
           SumOver([o \in Objects |->
                      Cnt(InstLevel(key, o).refresh_slots, LAMBDA sl : sl.func = func)],
                   Objects)

\* the events of the last emit that stand for one registration each: a slot
\* invoked, or the mark on the object the registration names (the marks a
\* recursion adds on other nodes are not counted)
Direct(e) == e.kind = "self_refresh_with_recurse" => e.obj = last.sender

\* something is registered under key that applies to obj
Applies(key, obj) ==
    \/ \E i \in DOMAIN mro[ClassOf[obj]] : SelfLevel(key, mro[ClassOf[obj]][i]) # SelfSlots_init
    \/ InstLevel(key, obj) # Slots_init

\* C1: an emit under key k invokes or marks only what was registered under
\* exactly k: per kind of registration and per callable, the emit triggers it
\* no more often than it is registered under k, whatever other keys hold.
C1_KeyIsolation ==
    last.op = "emit" =>
        \A kind \in SelfKinds \cup {"normal", "refresh"}, func \in SlotFuncs \cup RefreshFuncs :
            Cnt(last.events, LAMBDA e : e.kind = kind /\ e.func = func /\ Direct(e))
                <= RegsUnder(last.key, kind, func)

\* an emit triggered a registration of its key while another key also holds a
\* registration that applies to the sender
C1_Witness ==
    /\ last.op = "emit"
    /\ last.events # <<>>
    /\ \E k \in Keys \ {last.key} : Applies(k, last.sender)

Rank(kind) ==
    CASE kind = "self_normal" -> 1
      [] kind \in {"self_refresh", "self_refresh_with_recurse"} -> 2
      [] kind = "normal" -> 3
      [] kind = "refresh" -> 4

\* C2 as stated: over the whole emit, self-scoped slot invocations, then
\* self-scoped markings, then instance-scoped callbacks, then instance-scoped
\* markings.
C2_GlobalOrder ==
    last.op = "emit" =>
        \A i, j \in DOMAIN last.events :
            i < j => Rank(last.events[i].kind) <= Rank(last.events[j].kind)

\* C2 amended: the self-scoped order holds within each MRO level only; all
\* self-scoped work precedes the instance-scoped callbacks, which precede the
\* instance-scoped markings.
C2_LevelOrder ==
    last.op = "emit" =>
        \A i, j \in DOMAIN last.events :
            i < j =>
                LET a == last.events[i]
                    b == last.events[j]
                IN  /\ (a.kind \in SelfKinds /\ b.kind \in SelfKinds /\ a.cls = b.cls)
                          => Rank(a.kind) <= Rank(b.kind)
                    /\ (a.kind \notin SelfKinds \/ b.kind \notin SelfKinds)
                          => Rank(a.kind) <= Rank(b.kind)

\* an emit that ran a slot and then a marking of the same level
C2_Witness ==
    /\ last.op = "emit"
    /\ \E i, j \in DOMAIN last.events :
          /\ i < j
          /\ last.events[i].kind = "self_normal"
          /\ last.events[j].kind \in {"self_refresh", "self_refresh_with_recurse"}
          /\ last.events[i].cls = last.events[j].cls

\* C3: in an emit that completes, every MRO level of the sender that holds
\* self-scoped slots under the key has each of them triggered exactly as often
\* as it is registered at that level (once per registration), whatever the
\* other levels hold; no level is triggered more often even when emit raises.
C3_AllLevelsOnce ==
    last.op = "emit" =>
        \A n \in DOMAIN mro[ClassOf[last.sender]] :
            LET cls == mro[ClassOf[last.sender]][n]
                lvl == SelfLevel(last.key, cls)
            IN  /\ \A func \in SlotFuncs :
                      LET got == Cnt(last.events, LAMBDA e :
                                       e.kind = "self_normal" /\ e.cls = cls /\ e.func = func)
                          reg == CntIn(lvl.self_normal_slots, func)
                      IN  got <= reg /\ (~last.raised => got = reg)
                /\ \A func \in RefreshFuncs :
                      LET got == Cnt(last.events, LAMBDA e :
                                       e.kind = "self_refresh" /\ e.cls = cls /\ e.func = func)
                          reg == CntIn(lvl.self_refresh_slots, func)
                      IN  got <= reg /\ (~last.raised => got = reg)

\* an emit on an instance whose class and base class both hold self-scoped
\* slots under the key ran to completion
C3_Witness ==
    /\ last.op = "emit"
    /\ ~last.raised
    /\ last.sender = "a1"
    /\ SelfLevel(last.key, "Derived").self_normal_slots # <<>>
    /\ SelfLevel(last.key, "Base").self_normal_slots # <<>>

\* C4: what an emit triggers among the self-scoped registrations of a callable
\* is bounded by its registrations in the classes the sender is an instance
\* of; a registration in a subclass of the sender's class or in an unrelated
\* class is never triggered.
C4_SelfScope ==
    last.op = "emit" =>
        /\ \A i \in DOMAIN last.events :
              last.events[i].kind \in SelfKinds => IsInstance(last.sender, last.events[i].cls)
        /\ \A func \in SlotFuncs :
              Cnt(last.events, LAMBDA e : e.kind = "self_normal" /\ e.func = func)
                <= SumOver([c \in Classes |->
                              IF IsInstance(last.sender, c)
                              THEN CntIn(SelfLevel(last.key, c).self_normal_slots, func)
                              ELSE 0], Classes)

\* an emit on an instance of Base or of Cmpt while Derived holds a slot under
\* the key
C4_Witness ==
    /\ last.op = "emit"
    /\ last.sender \in {"b", "cm"}
    /\ SelfLevel(last.key, "Derived").self_normal_slots # <<>>
    /\ SelfLevel(last.key, "Base").self_normal_slots # <<>>

C6_UnregisteredKeyNoOp ==
    [][(last'.op = "emit" /\ last'.key \notin DOMAIN slots) =>
          /\ slots' = slots
          /\ dirty' = dirty
          /\ last'.events = <<>>
          /\ ~last'.raised]_vars

\* an emit under a key without registrations, on a sender that registrations
\* of another key apply to
C6_Witness ==
    /\ last.op = "emit"
    /\ last.key \notin DOMAIN slots
    /\ \E k \in Keys : Applies(k, last.sender)

\* some class of the sender's MRO holds a recursive registration under key
RecursionRequested(key, sender) ==
    \E n \in DOMAIN mro[ClassOf[sender]] :
        SelfLevel(key, mro[ClassOf[sender]][n]).self_refresh_slots_with_recurse # <<>>

C8_RaiseBeforeAnyEffect ==
    (last.op = "emit" /\ last.raised) => (last.events = <<>> /\ last.newly = {})

ChildSet(o) == {children[o][i] : i \in DOMAIN children[o]}

RECURSIVE Reach(_)
Reach(S) ==
    LET T == S \cup UNION {ChildSet(x) : x \in S}
    IN  IF T = S THEN S ELSE Reach(T)

\* the nodes below o in the relation graph
Descendants(o) == Reach(ChildSet(o))

\* the refresh registrations under key that apply to sender are exactly one
\* self_refresh_with_recurse(recurse_down=True, recurse_up=False) of func
SoleRecurseDown(key, sender, func) ==
    LET classes == mro[ClassOf[sender]]
    IN  /\ SumOver([n \in DOMAIN classes |->
                       Len(SelfLevel(key, classes[n]).self_refresh_slots)
                     + Len(SelfLevel(key, classes[n]).self_refresh_slots_with_recurse)],
                   DOMAIN classes)
             + Len(InstLevel(key, sender).refresh_slots) = 1
        /\ \E n \in DOMAIN classes :
              SelfLevel(key, classes[n]).self_refresh_slots_with_recurse
                  = <<SelfSlotWithRecurse(func, FALSE, TRUE)>>

\* C9: an emit on node N that carries one recurse_down registration of func
\* marks func exactly once on N and on every descendant of N, and on no other
\* node: the entries that were clean and became dirty lie in that set, and all
\* of that set is dirty afterwards.
C9_RecurseDownReach ==
    \A func \in RefreshFuncs :
        (last.op = "emit" /\ SoleRecurseDown(last.key, last.sender, func)) =>
            LET below == {last.sender} \cup Descendants(last.sender)
            IN  /\ \A o \in Objects :
                      Cnt(last.events, LAMBDA e : e.obj = o /\ e.func = func
                                                  /\ e.kind # "self_normal" /\ e.kind # "normal")
                          = IF o \in below THEN 1 ELSE 0
                /\ last.newly \subseteq below \X {func}
                /\ below \X {func} \subseteq dirty

\* the emit on N found every entry clean and dirtied N, C and G (G is below N
\* directly and through C), leaving the parent P and the sibling S clean
C9_Witness ==
    /\ last.op = "emit"
    /\ last.sender = "N"
    /\ SoleRecurseDown(last.key, "N", "get")
    /\ last.newly = {"N", "C", "G"} \X {"get"}
    /\ <<"P", "get">> \notin dirty
    /\ <<"S", "get">> \notin dirty

\* C10: an emit executes no registered computation; each entry it marks is
\* dirty when it returns, and a computation is executed by a read only.
C10_EmitOnlyMarks ==
    /\ last.op = "emit" =>
          /\ last.executed = {}
          /\ \A i \in DOMAIN last.events :
                last.events[i].kind \notin {"self_normal", "normal"}
                    => <<last.events[i].obj, last.events[i].func>> \in dirty
    /\ last.executed # {} => last.op = "read"

\* an emit marked an entry that had been computed before
C10_Witness ==
    /\ last.op = "emit"
    /\ last.newly # {}
    /\ last.executed = {}

IsPrefix(a, b) == Len(a) <= Len(b) /\ \A i \in DOMAIN a : a[i] = b[i]

\* every list of table s is still in table t, with its elements in place
TableKept(s, t) ==
    \A k \in DOMAIN s :
        /\ k \in DOMAIN t
        /\ \A q \in DOMAIN s[k].self_slots_dict :
              /\ q \in DOMAIN t[k].self_slots_dict
              /\ \A field \in DOMAIN SelfSlots_init :
                    IsPrefix(s[k].self_slots_dict[q][field], t[k].self_slots_dict[q][field])
        /\ \A i \in DOMAIN s[k].slots_dict :
              /\ i \in DOMAIN t[k].slots_dict
              /\ \A field \in DOMAIN Slots_init :
                    IsPrefix(s[k].slots_dict[i][field], t[k].slots_dict[i][field])

MroSet(obj) == {mro[ClassOf[obj]][n] : n \in DOMAIN mro[ClassOf[obj]]}

\* how often an emit of sender under key has to trigger func through lists of
\* the given kind: its registrations in the classes of the sender's MRO, or
\* those connected to the sender
RegsFor(key, sender, kind, func) ==
    CASE kind = "self_normal" ->
           SumOver([c \in MroSet(sender) |->
                      CntIn(SelfLevel(key, c).self_normal_slots, func)], MroSet(sender))
      [] kind = "self_refresh" ->
           SumOver([c \in MroSet(sender) |->
                      CntIn(SelfLevel(key, c).self_refresh_slots, func)], MroSet(sender))
      [] kind = "self_refresh_with_recurse" ->
           SumOver([c \in MroSet(sender) |->
                      Cnt(SelfLevel(key, c).self_refresh_slots_with_recurse,
                          LAMBDA sl : sl.func = func)], MroSet(sender))
      [] kind = "normal" -> CntIn(InstLevel(key, sender).normal_slots, func)
      [] kind = "refresh" ->
           Cnt(InstLevel(key, sender).refresh_slots, LAMBDA sl : sl.func = func)

\* C11: no operation removes or replaces a registration: every step keeps each
\* list of the table as a prefix of the list it becomes (an emit keeps the
\* table as it is); and an emit that completes triggers every callable as
\* often as it is then registered for the sender, so that a callable
\* registered n times is triggered n times.
C11_RegistrationsKept ==
    /\ [][/\ TableKept(slots, slots')
          /\ last'.op = "emit" => slots' = slots]_vars
    /\ [](last.op = "emit" /\ ~last.raised =>
            \A kind \in SelfKinds \cup {"normal", "refresh"},
               func \in SlotFuncs \cup RefreshFuncs :
                Cnt(last.events, LAMBDA e : e.kind = kind /\ e.func = func /\ Direct(e))
                    = RegsFor(last.key, last.sender, kind, func))

\* an emit triggered twice a callable that is registered twice in one list
C11_Witness ==
    /\ last.op = "emit"
    /\ ~last.raised
    /\ \E func \in SlotFuncs :
          /\ \/ CntIn(SelfLevel(last.key, ClassOf[last.sender]).self_normal_slots, func) = 2
             \/ CntIn(InstLevel(last.key, last.sender).normal_slots, func) = 2
          /\ Cnt(last.events, LAMBDA e : e.func = func) = 2

\* some class of the sender's MRO holds a self-scoped refresh registration under key
SelfRefreshApplies(key, sender) ==
    \E c \in MroSet(sender) :
        \/ SelfLevel(key, c).self_refresh_slots # <<>>
        \/ SelfLevel(key, c).self_refresh_slots_with_recurse # <<>>

\* C12: an emit on a sender marks, for every connect_refresh(sender, obj, func)
\* registration under the key, the entry of func on obj; unless obj is the
\* sender or a self-scoped refresh registration applies to the sender, no
\* entry of the sender itself is marked or changes.
C12_MarksTargetNotSender ==
    (last.op = "emit" /\ ~last.raised) =>
        LET rslots == InstLevel(last.key, last.sender).refresh_slots
        IN  /\ \A i \in DOMAIN rslots :
                  /\ <<rslots[i].obj, rslots[i].func>> \in dirty
                  /\ \E n \in DOMAIN last.events :
                        last.events[n] = Event("refresh", "-", rslots[i].func, rslots[i].obj)
            /\ (/\ ~SelfRefreshApplies(last.key, last.sender)
                /\ \A i \in DOMAIN rslots : rslots[i].obj # last.sender)
                  => /\ \A func \in RefreshFuncs : <<last.sender, func>> \notin last.newly
                     /\ \A n \in DOMAIN last.events :
                           last.events[n].kind = "refresh" => last.events[n].obj # last.sender

\* the emit on N, whose only registration is connect_refresh(N, S, get), found
\* the entries of N and S clean and dirtied that of S alone
C12_Witness ==
    /\ last.op = "emit"
    /\ last.sender = "N"
    /\ InstLevel(last.key, "N").refresh_slots = <<RefreshSlot("S", "get")>>
    /\ ~SelfRefreshApplies(last.key, "N")
    /\ last.newly = {<<"S", "get">>}
    /\ <<"N", "get">> \notin dirty

\* C13: the sub-alpha a sub-updater returns for alpha is
\* clip(alpha * ((count - 1) * r + 1) - i * r, 0, 1), evaluated in floats.
C13_LagRatioFormula ==
    out.op = "get_sub_alpha" =>
        LET r == out.self.lag_ratio
            i == out.self.index
            n == out.self.count
            x == FSub(FMul(out.alpha, FAdd(FMul(FromInt(n - 1), r), FromInt(1))),
                      FMul(FromInt(i), r))
        IN  out.value = IF x < 0 THEN 0 ELSE IF x > Unit THEN Unit ELSE x

\* a sub-alpha strictly between 0 and 1 of an index that lags
C13_Witness ==
    /\ out.op = "get_sub_alpha"
    /\ out.self.index > 0
    /\ out.self.lag_ratio > 0
    /\ 0 < out.value /\ out.value < Unit

\* C14: with lag ratio 0 the sub-alpha of every index equals the alpha asked
\* for, for every alpha in [0, 1].
C14_ZeroLagNoStagger ==
    (/\ out.op = "get_sub_alpha"
     /\ out.self.lag_ratio = 0
     /\ 0 <= out.alpha /\ out.alpha <= Unit)
        => out.value = out.alpha

\* the last of several indices returned an alpha strictly between 0 and 1 unchanged
C14_Witness ==
    /\ out.op = "get_sub_alpha"
    /\ out.self.lag_ratio = 0
    /\ out.self.count > 1
    /\ out.self.index = out.self.count - 1
    /\ 0 < out.alpha /\ out.alpha < Unit
    /\ out.value = out.alpha

\* C15: with a lag ratio >= 0, the sub-alpha of every index is 0 at alpha 0 and
\* 1 at alpha 1, lies within [0, 1], does not decrease when alpha grows, and
\* is at least the sub-alpha of the next index at the same alpha.
C15_StaggeredStartCommonFinish ==
    (out.op = "get_sub_alpha" /\ out.self.lag_ratio >= 0) =>
        /\ out.alpha = 0 => out.value = 0
        /\ out.alpha = Unit => out.value = Unit
        /\ 0 <= out.value /\ out.value <= Unit
        /\ \A a \in Alphas : a >= out.alpha => get_sub_alpha(out.self, a) >= out.value
        /\ out.self.index + 1 < out.self.count =>
              out.value >= get_sub_alpha([out.self EXCEPT !.index = @ + 1], out.alpha)

\* the items a DataUpdater has to target
Qualifying(self) ==
    LET walked == IF self.root_only THEN <<self.item>>
                  ELSE <<self.item>> \o walk_descendants(self.item)
    IN  SelectSeq(walked, LAMBDA x : ~(self.skip_null_items /\ live[x].null))

\* C16: _time_fixed creates one sub-updater per qualifying item, in walk
\* order, with the indices 0..count-1 and count the number of qualifying
\* items; with root_only only the root is targeted.
C16_TargetsAndIndices ==
    out.op = "DataUpdater" =>
        LET q == Qualifying(out.self)
        IN  /\ Len(out.subs) = Len(q)
            /\ \A i \in DOMAIN out.subs :
                  /\ out.subs[i].item = q[i]
                  /\ out.subs[i].index = i - 1
                  /\ out.subs[i].count = Len(q)
            /\ out.self.root_only => \A i \in DOMAIN out.subs : out.subs[i].item = out.self.item
            /\ \A x \in Items :
                  Cnt(stacks[x].anims, LAMBDA a : a.func = out.self.func)
                      = Cnt(q, LAMBDA y : y = x)

\* the null item C, between N and G in the walk, was skipped: G has index 1 of 2
C16_Witness ==
    /\ out.op = "DataUpdater"
    /\ live["C"].null
    /\ ~out.self.root_only
    /\ out.self.skip_null_items
    /\ Len(out.subs) = 2
    /\ out.subs[2].item = "G"
    /\ out.subs[2].index = 1

Last(seq) == seq[Len(seq)]

\* no animation of the stack is under way at t, seen from the right
NoneActive(stack, t) ==
    \A i \in DOMAIN stack.anims :
        ~(stack.anims[i].t_range[1] <= t /\ t < stack.anims[i].t_range[2])

AlphaOf(a, t) ==
    IF t <= a.t_range[1] THEN 0
    ELSE IF t >= a.t_range[2] THEN Unit
    ELSE fl((t - a.t_range[1]) * Unit, a.t_range[2] - a.t_range[1])

\* C18: the state computed for an item at t is the persisted state it starts
\* from, followed by one application per updater whose range contains t, in
\* the order the updaters were registered: each application is recorded after
\* those of the updaters before it, on the state they produced.
C18_LeftToRight ==
    out.op = "compute" =>
        LET stack == stacks[out.item]
            act   == SelectSeq(stack.anims,
                               LAMBDA a : IF out.get_at_left
                                          THEN a.t_range[1] < out.t /\ out.t <= a.t_range[2]
                                          ELSE a.t_range[1] <= out.t /\ out.t < a.t_range[2])
            n     == Len(out.data.hist) - Len(act)
        IN  /\ n >= 0
            /\ \E i \in DOMAIN stack.became :
                  stack.became[i].data = [out.data EXCEPT !.hist = SubSeq(@, 1, n)]
            /\ \A j \in DOMAIN act :
                  out.data.hist[n + j]
                      = <<act[j].func, get_sub_alpha(act[j], AlphaOf(act[j], out.t))>>

\* at time 2, seen from the left, the first updater is at its end and the
\* second half way: the state of N carries the first one's application and
\* then the second one's
C18_Witness ==
    /\ out.op = "compute"
    /\ out.item = "N"
    /\ out.t = 2
    /\ out.get_at_left
    /\ out.data.hist = <<<<1, Unit>>, <<2, Unit \div 2>>>>

\* C19: a sample at the time of the first sample yields, for every item both
\* evaluated, the state the first sample yielded, whatever was sampled in
\* between, at whatever times, and in whatever order the items are evaluated.
C19_RepeatableSample ==
    (out.op = "sample" /\ out.t = out.first.t /\ out.get_at_left = out.first.get_at_left) =>
        \A x \in DOMAIN out.result \cap DOMAIN out.first.result :
            out.result[x] = out.first.result[x]

\* after a first sample of the three items at time 2, within the group's
\* range, and a sample at another time, one item is sampled at time 2 again,
\* the stacks being taken in an order that does not start with the root
C19_Witness ==
    /\ out.op = "sample"
    /\ out.between
    /\ out.t = 2
    /\ out.first.t = 2
    /\ ~out.get_at_left
    /\ ~out.first.get_at_left
    /\ out.order[1] # "N"
    /\ DOMAIN out.result = {out.order[1]}
    /\ out.order[1] \in DOMAIN out.first.result
    /\ Cardinality(DOMAIN out.first.result) = 3

\* C20: in a sample at a time of the group's range the user function is
\* invoked exactly once, however many items are evaluated, every item
\* evaluated carries that one application, and the applied flag is set
\* afterwards, also when it was set by the sample before; outside the range
\* the function is not invoked.
C20_OncePerSample ==
    out.op = "sample" =>
        IF anim_contains(group, out.t, out.get_at_left)
        THEN /\ group.calls = 1
             /\ group.applied
             /\ \A x \in DOMAIN out.result :
                   Cnt(out.result[x].hist, LAMBDA h : h[1] = group.func) = 1
        ELSE group.calls = 0

\* a sample that evaluated three items and follows a sample which left the
\* flag set
C20_Witness ==
    /\ out.op = "sample"
    /\ out.applied_before
    /\ Cardinality(DOMAIN out.result) = 3
    /\ group.calls = 1
    /\ group.applied

\* the states the stacks hand to the group's sub-updaters in a sample at t
GroupInput(t, get_at_left) == [x \in Items |-> compute(stacks[x], t, get_at_left)]

\* C21: in a sample at a time of the group's range every node of the working
\* copy is the input state of its item in this sample with the one application
\* of the user function on top, the function having seen the inputs of this
\* sample on all the nodes, and every item evaluated receives the state of its
\* own node.
C21_CopyRestoredAndWrittenBack ==
    (out.op = "sample" /\ anim_contains(group, out.t, out.get_at_left)) =>
        LET input == GroupInput(out.t, out.get_at_left)
            alpha == get_alpha_on_global_t(group, out.t)
            seen_ == SumLen([x \in Items |-> input[x].hist], Items)
        IN  /\ \A x \in Items :
                  group.data[x] =
                      [input[x] EXCEPT !.hist = Append(@, <<group.func, alpha, seen_>>)]
            /\ \A x \in DOMAIN out.result : out.result[x] = group.data[x]

\* the three items are sampled at time 1, where the inputs differ from those
\* of the first sample, taken at time 2
C21_Witness ==
    /\ out.op = "sample"
    /\ out.t = 1
    /\ out.first.t = 2
    /\ Cardinality(DOMAIN out.result) = 3
    /\ ~out.get_at_left
    /\ ~out.first.get_at_left
    /\ GroupInput(1, FALSE) # GroupInput(2, FALSE)
    /\ \A x \in Items :
          Len(group.data[x].hist) = Len(GroupInput(1, FALSE)[x].hist) + 1

\* C22: an operation of an ItemUpdater in which UpdaterError is raised leaves
\* no partial state: a _time_fixed that raises has not replaced the item, has
\* committed nothing to a stack and has registered neither a render callback
\* nor a schedule entry, and a render callback that raises has made no renderer.
C22_ErrorAppliesNoPartialState ==
    [][/\ (out'.op = "ItemUpdater" /\ out'.raised) =>
             /\ live' = live
             /\ stacks' = stacks
             /\ timeline'.callbacks = timeline.callbacks
             /\ timeline'.schedule = timeline.schedule
       /\ (out'.op = "render" /\ out'.raised # {}) =>
             \A k \in out'.raised :
                 DictGet(timeline'.renderers, k, {}) = DictGet(timeline.renderers, k, {})
      ]_vars

\* C23: once the user function of an ItemUpdater has returned a value that is
\* not an item, no later sample invokes that function again or obtains render
\* calls from that animation.
C23_ErrorTerminal ==
    out.op = "render" =>
        \A k \in out.errored_before :
            /\ ~InSeq(k, out.invoked)
            /\ \A j \in DOMAIN out.render_calls : out.render_calls[j][1] # k

\* the stack entries committed at time t
CommittedAt(x, t) == {i \in DOMAIN stacks[x].became : stacks[x].became[i].t = t}

\* C24: a _time_fixed of an ItemUpdater on an item, with become_at_end and a
\* function that returns an item, has invoked the function exactly once, with
\* alpha 1 and the end of the range as global time; the item is then the item
\* returned, and the stack of the item and of each of its descendants has the
\* item's live state committed last, at the end of the range.  Without
\* become_at_end the function has not been invoked and no stack has an entry
\* committed at the end of the range.
C24_ItemBecomeAtEnd ==
    (out.op = "ItemUpdater" /\ out.self.item # None /\ ~out.raised) =>
        LET self == out.self
            end  == self.t_range[2]
        IN  IF self.become_at_end
            THEN /\ Len(out.calls) = 1
                 /\ out.calls[1].alpha = Unit
                 /\ out.calls[1].global_t = end
                 /\ live[self.item] =
                        [null |-> FALSE, hist |-> <<<<self.func.name, Unit, end>>>>]
                 /\ \A x \in {self.item} \cup Descendants(self.item) :
                       Last(stacks[x].became) = [t |-> end, data |-> live[x]]
            ELSE /\ out.calls = <<>>
                 /\ \A x \in Items : CommittedAt(x, end) = {}
                 /\ \A i \in DOMAIN live[self.item].hist :
                       live[self.item].hist[i][1] # self.func.name

\* an ItemUpdater with become_at_end has been made on N, which has the
\* descendants C and G
C24_Witness ==
    /\ out.op = "ItemUpdater"
    /\ out.self.item = "N"
    /\ out.self.become_at_end
    /\ ~out.raised
    /\ Descendants("N") = {"C", "G"}
    /\ CommittedAt("G", out.self.t_range[2]) # {}

\* the entries of the schedule that equal e
Scheduled(e) == {i \in DOMAIN timeline.schedule : timeline.schedule[i] = e}

\* C25: after the _time_fixed of an ItemUpdater, hide of the item is scheduled
\* at the start of the range exactly when there is an item and hide_at_begin,
\* and show at the end exactly when there is an item and show_at_end; its
\* render-calls callback is registered once.  Without an item nothing is
\* scheduled for it, the function has not been invoked and no stack has an
\* entry committed at the end of the range.
C25_VisibilityScheduling ==
    out.op = "ItemUpdater" =>
        LET self == out.self
            hide == [t |-> self.t_range[1], item |-> self.item, task |-> "hide"]
            show == [t |-> self.t_range[2], item |-> self.item, task |-> "show"]
        IN  /\ Cardinality(Scheduled(hide)) =
                   IF self.item # None /\ self.hide_at_begin THEN 1 ELSE 0
            /\ Cardinality(Scheduled(show)) =
                   IF self.item # None /\ self.show_at_end THEN 1 ELSE 0
            /\ Cardinality({i \in DOMAIN timeline.callbacks :
                               timeline.callbacks[i].anim = self}) = 1
            /\ self.item = None =>
                   /\ \A i \in DOMAIN timeline.schedule : timeline.schedule[i].item # None
                   /\ out.calls = <<>>
                   /\ ~out.raised
                   /\ \A x \in Items : CommittedAt(x, self.t_range[2]) = {}

\* an ItemUpdater on N without hide_at_begin and with show_at_end
C25_Witness ==
    /\ out.op = "ItemUpdater"
    /\ out.self.item = "N"
    /\ ~out.self.hide_at_begin
    /\ out.self.show_at_end
    /\ Len(timeline.schedule) = 1

\* the arrow that interpolate(alpha) produces when called first after begin
FirstFrame(alpha) ==
    GrowArrow_interpolate([grow EXCEPT !.arrow = grow.arrow_copy], alpha).arrow

\* C26: after begin, any interpolate calls and finish, the arrow is in the
\* state interpolate(1) produces, whether or not a call used alpha = 1.
C26_FinishAppliesAlphaOne ==
    grow.phase = "Finished" => grow.arrow = FirstFrame(FromInt(1))

\* finish follows an interpolate at an alpha below 1 that left the arrow in
\* another state, and no call used alpha = 1
C26_Witness ==
    /\ grow.phase = "Finished"
    /\ ~grow.landed
    /\ grow.prev_op = "interpolate"
    /\ grow.prev_alpha < FromInt(1)
    /\ grow.before # grow.arrow

\* C27: after begin, the arrow after interpolate(a) is the one interpolate(a)
\* produces from the snapshot when called first, whatever calls preceded it,
\* and an interpolate(a) that follows an interpolate(a) leaves the arrow as
\* it was.
C27_InterpolateOrderFree ==
    grow.op = "interpolate" =>
        /\ grow.arrow = FirstFrame(grow.alpha)
        /\ (grow.prev_op = "interpolate" /\ grow.prev_alpha = grow.alpha) =>
               grow.arrow = grow.before

\* an interpolate at a smaller alpha follows one at a larger alpha, the body
\* after it being shorter than before and longer than a point
C27_Witness ==
    /\ grow.op = "interpolate"
    /\ grow.prev_op = "interpolate"
    /\ 0 < grow.alpha
    /\ grow.alpha < grow.prev_alpha
    /\ grow.arrow.points # grow.before.points
    /\ grow.arrow.points[1] # grow.arrow.points[2]
    /\ grow.arrow.tip.at = grow.arrow.points[2]

\* C28: a read of the unit normal that is not the first since the points last
\* changed performs no recomputation and returns what the first one returned.
C28_UnitNormalStable ==
    (vitem.op = "get_unit_normal" /\ vitem.reads >= 2) =>
        /\ ~vitem.recomputed
        /\ vitem.ret = vitem.first

\* what the self-scoped registrations of class cls under key trigger, in the
\* order of C29: the normal slots, the refresh markings, the recursive ones
LevelOrder(key, cls) ==
    LET lvl == SelfLevel(key, cls)
    IN  [i \in DOMAIN lvl.self_normal_slots |->
            <<"self_normal", cls, lvl.self_normal_slots[i]>>]
        \o [i \in DOMAIN lvl.self_refresh_slots |->
               <<"self_refresh", cls, lvl.self_refresh_slots[i]>>]
        \o [i \in DOMAIN lvl.self_refresh_slots_with_recurse |->
               <<"self_refresh_with_recurse", cls, lvl.self_refresh_slots_with_recurse[i].func>>]

\* the levels of the classes classes[n], classes[n + 1], .. one after the other
RECURSIVE LevelsFrom(_, _, _)
LevelsFrom(key, classes, n) ==
    IF n > Len(classes) THEN <<>>
    ELSE LevelOrder(key, classes[n]) \o LevelsFrom(key, classes, n + 1)

\* the instance-scoped part: callbacks in connect order, then markings in
\* connect_refresh order
InstOrder(key, sender) ==
    LET sl == InstLevel(key, sender)
    IN  [i \in DOMAIN sl.normal_slots |-> <<"normal", "-", sl.normal_slots[i]>>]
        \o [i \in DOMAIN sl.refresh_slots |-> <<"refresh", "-", sl.refresh_slots[i].func>>]

\* the registrations triggered by the last emit, in order
Triggered ==
    LET direct == SelectSeq(last.events, Direct)
    IN  [i \in DOMAIN direct |-> <<direct[i].kind, direct[i].cls, direct[i].func>>]

\* C29: an emit that completes triggers the registrations in exactly this
\* order: level by level along the sender's MRO from the most derived class,
\* within a level the normal slots, the refresh markings and the recursive
\* markings, each in registration order, then the instance-scoped callbacks
\* and the instance-scoped markings, each in registration order; an emit that
\* raises has triggered a prefix of that order.
C29_DispatchOrder ==
    last.op = "emit" =>
        LET order == LevelsFrom(last.key, mro[ClassOf[last.sender]], 1)
                     \o InstOrder(last.key, last.sender)
        IN  IF last.raised THEN IsPrefix(Triggered, order) ELSE Triggered = order

\* an emit marked at the level of Derived and then ran a slot of Base
C29_Witness ==
    /\ last.op = "emit"
    /\ ~last.raised
    /\ Len(last.events) = 2
    /\ last.events[1].kind = "self_refresh"
    /\ last.events[1].cls = "Derived"
    /\ last.events[2].kind = "self_normal"
    /\ last.events[2].cls = "Base"

\* C30: with become_at_end, the state committed last in the stack of every
\* item of the group, at the end of the group's range, is the state a sample
\* of the item at the end of the range from the left yields once the
\* sub-updaters are registered.
C30_BaselineIsFinalFrame ==
    (/\ out.op = "sample"
     /\ group.become_at_end
     /\ out.get_at_left
     /\ out.t = group.t_range[2]) =>
        \A x \in DOMAIN out.result :
            Last(stacks[x].became) = [t |-> group.t_range[2], data |-> out.result[x]]

\* the three items are sampled from the left at the end of the range of a
\* group with become_at_end; their states carry the application of the
\* DataUpdater at its end and that of the group's function with alpha 1
C30_Witness ==
    /\ out.op = "sample"
    /\ group.become_at_end
    /\ out.get_at_left
    /\ out.t = group.t_range[2]
    /\ Cardinality(DOMAIN out.result) = 3
    /\ \A x \in Items :
          /\ Len(out.result[x].hist) = 2
          /\ out.result[x].hist[1][1] = 1
          /\ out.result[x].hist[2][1] = group.func
          /\ out.result[x].hist[2][2] = Unit
          /\ live[x] = out.result[x]

\* C31: whenever the function of an updater is invoked, by _time_fixed with
\* become_at_end or by an application at a time t, the user functions called
\* are the original function and then the post-updaters the invoked function
\* was given, in the order they were added, each once, and every one of them
\* is called with the object and the parameters of the invocation.
C31_PostUpdaterOrder ==
    (upd.passed # None) =>
        LET expected == <<0>> \o SubSeq(upd.posts, 1, upd.taken)
        IN  /\ Len(upd.calls) = Len(expected)
            /\ \A i \in DOMAIN upd.calls :
                  /\ upd.calls[i].func = expected[i]
                  /\ upd.calls[i].data = upd.passed
                  /\ upd.calls[i].p = upd.calls[1].p
                  /\ upd.calls[i].p.global_t = upd.t

\* a GroupUpdater given two different post-updaters is applied inside its range
C31_Witness ==
    /\ upd.op = "apply"
    /\ upd.kind = "GroupUpdater"
    /\ upd.t = 1
    /\ Len(upd.calls) = 3
    /\ upd.calls[2].func # upd.calls[3].func

\* C32: while a user function runs inside a with-block, updater_params_ctx
\* holds the record of the innermost block entered and not yet left; when a
\* block is left, by return or by an exception, the variable holds the value it
\* had when that block was entered; and when no block is under way the
\* variable holds nothing.
C32_AmbientScoped ==
    LET n == Len(ambient.frames)
    IN  /\ (n > 0 /\ ~ambient.exc) =>
               ambient.updater_params_ctx = <<ambient.frames[n].params>>
        /\ ambient.op \in {"return", "raise", "propagate"} =>
               ambient.updater_params_ctx = ambient.before
        /\ \A i \in 1..n :
               ambient.frames[i].before =
                   IF i = 1 THEN <<>> ELSE <<ambient.frames[i - 1].params>>
        /\ n = 0 => ambient.updater_params_ctx = <<>>

\* an exception raised two samples deep has left the inner block and been
\* caught in the outer one, whose function goes on with its own record
C32_Witness ==
    /\ ambient.op = "except"
    /\ Len(ambient.frames) = 1
    /\ ambient.updater_params_ctx = <<ambient.frames[1].params>>

\* C33: a change of the points marks the unit normal, the stroke width and the
\* fill dirty and leaves the three stored values as they were; a read of one of
\* them leaves that value's flag cleared and the other two flags as they were;
\* and no flag goes from clean to dirty in any step but a change of the points.
C33_DirtyFlags ==
    [][/\ vitem'.op = "set_points" =>
             /\ vitem'.needs_new_unit_normal
             /\ vitem'.needs_new_stroke_width
             /\ vitem'.needs_new_fill_rgbas
             /\ vitem'.unit_normal = vitem.unit_normal
             /\ vitem'.stroke_width = vitem.stroke_width
             /\ vitem'.fill_rgbas = vitem.fill_rgbas
       /\ vitem'.op = "get_unit_normal" =>
             /\ ~vitem'.needs_new_unit_normal
             /\ vitem'.needs_new_stroke_width = vitem.needs_new_stroke_width
             /\ vitem'.needs_new_fill_rgbas = vitem.needs_new_fill_rgbas
       /\ vitem'.op = "get_stroke_width" =>
             /\ ~vitem'.needs_new_stroke_width
             /\ vitem'.needs_new_unit_normal = vitem.needs_new_unit_normal
             /\ vitem'.needs_new_fill_rgbas = vitem.needs_new_fill_rgbas
       /\ vitem'.op = "get_fill_rgbas" =>
             /\ ~vitem'.needs_new_fill_rgbas
             /\ vitem'.needs_new_unit_normal = vitem.needs_new_unit_normal
             /\ vitem'.needs_new_stroke_width = vitem.needs_new_stroke_width
       /\ vitem'.op # "set_points" =>
             /\ vitem'.needs_new_unit_normal => vitem.needs_new_unit_normal
             /\ vitem'.needs_new_stroke_width => vitem.needs_new_stroke_width
             /\ vitem'.needs_new_fill_rgbas => vitem.needs_new_fill_rgbas]_vars

\* after a change to six points the stroke width has been read and resized,
\* and the other two values are still marked
C33_Witness ==
    /\ vitem.op = "get_stroke_width"
    /\ Len(vitem.points) = 6
    /\ Len(vitem.stroke_width) = 6
    /\ ~vitem.needs_new_stroke_width
    /\ vitem.needs_new_unit_normal
    /\ vitem.needs_new_fill_rgbas

\* every key a file was opened for still has its entry, holding the image
\* loaded then
EntriesKept ==
    \A i \in DOMAIN textures.opened :
        /\ textures.opened[i].key \in DOMAIN textures.filepath_to_img_map
        /\ textures.filepath_to_img_map[textures.opened[i].key] = textures.opened[i].img

\* no file is opened twice for the same resolved path and modification time
OpenedOncePerKey ==
    \A i, j \in DOMAIN textures.opened :
        textures.opened[i].key = textures.opened[j].key => i = j

\* C34 as stated: a file is opened at most once per (resolved path,
\* modification time); a call for a path whose modification time is the one of
\* the previous call for it returns the image that call returned; a call for a
\* path whose modification time differs from the one of the previous call
\* loads a new image; no entry is evicted or overwritten.
C34_ReloadsWheneverMtimeChanged ==
    /\ OpenedOncePerKey
    /\ EntriesKept
    /\ textures.op = "get_img_from_file" =>
           LET mtime == textures.files[find_file(textures.name)].mtime
           IN  /\ textures.before.mtime = mtime =>
                      textures.ret = textures.before.img /\ ~textures.loaded
               /\ (textures.before.mtime # 0 /\ textures.before.mtime # mtime) =>
                      textures.loaded /\ textures.ret # textures.before.img

\* C34, amended: a file is opened at most once per (resolved path, modification
\* time); a call for a path whose modification time is the one of the previous
\* call for it returns the image that call returned; a call whose (path,
\* modification time) has no entry yet loads a new image, with the data the
\* file has then; a call whose pair has an entry returns that entry's image
\* without opening the file, also when the modification time differs from the
\* one of the previous call; the image returned is always the one loaded for
\* the current pair; no entry is evicted or overwritten.
C34_CachedByPathAndMtime ==
    /\ OpenedOncePerKey
    /\ EntriesKept
    /\ textures.op = "get_img_from_file" =>
           LET file_path == find_file(textures.name)
               mtime     == textures.files[file_path].mtime
           IN  /\ textures.before.mtime = mtime =>
                      textures.ret = textures.before.img /\ ~textures.loaded
               /\ ~textures.cached_before =>
                      /\ textures.loaded
                      /\ textures.images[textures.ret].data = textures.files[file_path].data
               /\ textures.cached_before => ~textures.loaded
               /\ \E i \in DOMAIN textures.opened :
                      textures.opened[i] = [key |-> <<file_path, mtime>>, img |-> textures.ret]
               /\ textures.before.mtime \notin {0, mtime} =>
                      textures.ret # textures.before.img

\* the modification time of a file went back to one it had at an earlier call:
\* the call returns the image cached then and opens nothing
C34_Witness ==
    /\ textures.op = "get_img_from_file"
    /\ textures.before.mtime \notin {0, textures.files[find_file(textures.name)].mtime}
    /\ textures.cached_before
    /\ ~textures.loaded
    /\ textures.ret # textures.before.img

\* C35: the texture returned by get_texture_from_img(img) was made from that
\* image, holds its data and belongs to the render context current at the
\* call; and no two textures were made from the same image in the same
\* context.
C35_TextureSound ==
    /\ textures.op = "get_texture_from_img" =>
           /\ textures.made[textures.ret].img = textures.img
           /\ textures.made[textures.ret].data = textures.images[textures.img].data
           /\ textures.made[textures.ret].ctx = textures.ctx
    /\ \A s, t \in DOMAIN textures.made :
           (/\ textures.made[s].img = textures.made[t].img
            /\ textures.made[s].ctx = textures.made[t].ctx) => s = t


\* the names of the weights, from the lightest on
NamedWeights ==
    <<"thin", "extralight", "light", "regular", "medium", "semibold", "bold",
      "extrabold", "black">>

\* the number a weight asked for stands for
NumericWeight(weight) ==
    IF "int" \in DOMAIN weight THEN weight.int
    ELSE 100 * (CHOOSE k \in 1..9 : NamedWeights[k] = weight.name)

\* the key of a variant for the weight and style asked for
VariantKey(variant, weight, style) ==
    <<style_distance(FontInfo_style(variant), style),
      IF FontInfo_weight(variant) >= weight THEN FontInfo_weight(variant) - weight
      ELSE weight - FontInfo_weight(variant),
      0 - FontInfo_weight(variant)>>

\* key a comes before key b in the lexicographic order
KeyBefore(a, b) ==
    \E k \in 1..3 : a[k] < b[k] /\ \A j \in 1..(k - 1) : a[j] = b[j]

\* C36: for a family with two or more variants find_best_variant returns a
\* variant whose key (style distance, difference of weight, minus weight) is
\* the lexicographic minimum over the family, the earliest-added one among the
\* variants with that key, a named weight standing for its number (thin = 100
\* ... black = 900); for a family of one variant it returns that variant
C36_BestVariant ==
    fonts.op = "find_best_variant" =>
        LET infos  == fonts.database.family_by_name[fonts.name].infos
            weight == NumericWeight(fonts.weight)
            key(i) == VariantKey(infos[i], weight, fonts.style)
        IN  IF Len(infos) = 1 THEN fonts.ret = infos[1]
            ELSE \E i \in 1..Len(infos) :
                    /\ fonts.ret = infos[i]
                    /\ \A j \in 1..Len(infos) : ~KeyBefore(key(j), key(i))
                    /\ \A j \in 1..(i - 1) : key(j) # key(i)

\* a family of six variants is asked for a bold normal font: the two medium
\* ones are equally near and the one added first is returned
C36_Witness ==
    /\ fonts.op = "find_best_variant"
    /\ fonts.name = "Sans"
    /\ fonts.weight = [name |-> "bold"]
    /\ fonts.style = "normal"
    /\ Len(fonts.database.family_by_name["Sans"].infos) = 6
    /\ fonts.database.family_by_name["Sans"].infos[3] = Medium
    /\ fonts.database.family_by_name["Sans"].infos[4] = MediumCopy
    /\ fonts.ret = Medium


\* the fonts kept in font_by_full_name
FullNameFonts(db) ==
    {db.font_by_full_name.at[k] : k \in DOMAIN db.font_by_full_name.at}

\* C37: get_font_info_by_attrs resolves the name as a family name (giving the
\* best variant of the family) before an exact full name, and that before a
\* debug name; it raises FontNotFoundError exactly when none of the three
\* matches, and what it returns is a font
C37_LookupPrecedence ==
    fonts.op = "get_font_info_by_attrs" =>
        LET db     == fonts.database
            family == fonts.name \in DOMAIN db.family_by_name
            full   == \E info \in FullNameFonts(db) : info.full_name = fonts.name
            debug  == \E info \in FullNameFonts(db) : info.debug_name = fonts.name
        IN  /\ fonts.raised <=> ~(family \/ full \/ debug)
            /\ ~fonts.raised =>
                  /\ \/ fonts.ret \in FullNameFonts(db)
                     \/ \E f \in DOMAIN db.family_by_name :
                           \E i \in 1..Len(db.family_by_name[f].infos) :
                              fonts.ret = db.family_by_name[f].infos[i]
                  /\ family =>
                        fonts.ret = FontFamily_find_best_variant(
                                        db.family_by_name[fonts.name],
                                        fonts.weight, fonts.style)
                  /\ ~family /\ full => fonts.ret.full_name = fonts.name
                  /\ ~family /\ ~full => fonts.ret.debug_name = fonts.name

\* "Sans" is the name of a family and the full name of a font of another
\* family: the lookup gives a font of the family Sans
C37_Witness ==
    /\ fonts.op = "get_font_info_by_attrs"
    /\ fonts.name = "Sans"
    /\ Serif \in FullNameFonts(fonts.database)
    /\ ~fonts.raised
    /\ fonts.ret.family_name = "Sans"
    /\ fonts.ret # Serif

====
